---- MODULE Spec2Model ----
(***************************************************************************)
(* MADRIS evidence pipeline: time-phased ingestion of a raw case study,    *)
(* the experience memory (Qdrant client or the in-process fallback), and   *)
(* the deterministic similarity engine.                                    *)
(*                                                                         *)
(* Python values are tagged records [t, s, n, l]: t is the runtime type,   *)
(* s the payload of a str, n the payload of a number (an int as itself, a  *)
(* float in tenths), l the items of a list.  An Optional[UncertainProperty]*)
(* is a record with a "some" flag, so that None and UncertainProperty(None)*)
(* stay distinct as they are in the code.                                  *)
(***************************************************************************)
EXTENDS Integers, Sequences, FiniteSets, TLC

VARIABLES
    raw,          \* the dict handed to ingest_case_study
    ingested,     \* its result: [status, slices]
    client,       \* which QdrantClient the memory runs on: "qdrant" or "fallback"
    collection,   \* the points of the collection, oldest first
    retrieved,    \* result of the last retrieve_candidates: [status, units]
    restored,     \* result of the last from_dict(to_dict(s)): [status, src, out]
    simQuery,     \* query situation of the similarity engine
    simCand,      \* candidate unit of the similarity engine
    simResults,   \* the SimilarityResults returned so far for that pair
    rankQuery,    \* query situation handed to rank_candidates
    rankCands,    \* candidate units handed to rank_candidates, in input order
    ranked,       \* its result: [status, results]
    queryPhase,   \* phase of the slice the pipeline runs for
    topCohort,    \* the SimilarityResults the pipeline runs on
    rawProjections,          \* project_timeline result: [status, out]
    rawInterventions,        \* recommend_interventions result: [status, out]
    calibratedProjections,   \* calibrate_projections result: [status, out]
    calibratedInterventions, \* calibrate_interventions result: [status, out]
    systemResponse,          \* format_response call: the two dicts passed and the result
    sitHeap,      \* the EarthquakeSituation objects: reference -> value
    timeSlice,    \* a TimeSlice: [phase, situation], situation a reference
    expUnit,      \* the ExperienceUnit made from it: [made, unit], situation a reference
    assignRaised, \* whether the last assignment to a field of the unit raised
    historicalMemory, \* historical_memory handed to replay_case
    replayLogs,   \* replay_case: [status, slices, final_outcomes, logs]
    environ,      \* os.environ at startup
    process,      \* the backend process: "starting", "serving" or "exited"
    llm_client,   \* the client create_llm_client returned
    snapshotPoints, \* the points of the decision_snapshots collection
    httpResponse  \* the last HTTP exchange: [route, code, body and what it called]

ingestVars == <<raw, ingested>>
memVars == <<client, collection, retrieved, restored>>
simVars == <<simQuery, simCand, simResults>>
rankVars == <<rankQuery, rankCands, ranked>>
pipeVars == <<queryPhase, topCohort, rawProjections, rawInterventions, calibratedProjections, calibratedInterventions, systemResponse>>
ownVars == <<sitHeap, timeSlice, expUnit, assignRaised>>
replayVars == <<historicalMemory, replayLogs>>
apiVars == <<environ, process, llm_client, snapshotPoints, httpResponse>>
vars == <<ingestVars, memVars, simVars, rankVars, pipeVars, ownVars, replayVars, apiVars>>

--------------------------------------------------------------------------
(* Python values *)

PyNone == [t |-> "none", s |-> "", n |-> 0, l |-> <<>>]
PyStr(x) == [t |-> "str", s |-> x, n |-> 0, l |-> <<>>]
PyInt(k) == [t |-> "int", s |-> "", n |-> k, l |-> <<>>]
PyFloat(tenths) == [t |-> "float", s |-> "", n |-> tenths, l |-> <<>>]
PyList(items) == [t |-> "list", s |-> "", n |-> 0, l |-> items]

\* A value of the raw dict: a mapping (t = "dict", m its items) or anything else.
PyDict(items) == [t |-> "dict", m |-> items]
NotADict(tag) == [t |-> tag, m |-> <<>>]

IsNone(v) == v.t = "none"

--------------------------------------------------------------------------
(* canonical_state/earthquake_state.py *)

NoProp == [some |-> FALSE, value |-> PyNone, source |-> "", confidence |-> ""]
UncertainProperty(v, src, conf) ==
    [some |-> TRUE, value |-> v, source |-> src, confidence |-> conf]

EventIdentity ==
    [event_id |-> PyNone, event_type |-> "earthquake", magnitude |-> NoProp,
     intensity |-> NoProp, phase |-> PyNone, timestamp |-> PyNone,
     time_since_event_hours |-> PyNone]

SpatialContext ==
    [region_type |-> NoProp, terrain |-> NoProp, secondary_hazards |-> <<>>,
     location_description |-> PyNone]

HumanExposure ==
    [population_density |-> NoProp, vulnerable_groups |-> <<>>,
     time_of_day_context |-> PyNone]

BuiltEnvironment ==
    [dominant_building_types |-> <<>>, construction_quality |-> NoProp,
     critical_infrastructure_status |-> <<>>]

DamageIndicators ==
    [building_collapse_severity |-> NoProp, access_disruption |-> NoProp,
     utility_failures |-> <<>>, visible_hazards |-> <<>>]

ActionsTaken ==
    [rescue_operations |-> NoProp, evacuation_status |-> NoProp,
     medical_deployment |-> NoProp, logistics_coordination |-> NoProp]

Outcomes ==
    [casualties |-> NoProp, injuries |-> NoProp, displacement |-> NoProp,
     economic_loss |-> NoProp]

\* EarthquakeSituation(): every sub-aggregate at its default.  created_at (the
\* wall clock at construction) is metadata no operation below reads.
EarthquakeSituation ==
    [event_identity |-> EventIdentity, spatial_context |-> SpatialContext,
     human_exposure |-> HumanExposure, built_environment |-> BuiltEnvironment,
     damage_indicators |-> DamageIndicators, actions_taken |-> ActionsTaken,
     outcomes |-> Outcomes, record_id |-> PyNone]

--------------------------------------------------------------------------
(* multimodal_ingestion/case_study_ingestion.py *)

TimePhase == <<"T0_IMPACT", "T1_EARLY_RESPONSE", "T2_STABILIZATION", "T3_OUTCOME">>

\* data.get(key, {}) on the raw dict
SectionOf(data, key) == IF key \in DOMAIN data THEN data[key] ELSE PyDict(<<>>)

\* mapping.get(key) on a sub-aggregate
LeafOf(m, key) == IF key \in DOMAIN m THEN m[key] ELSE PyNone

\* section.get(...) raises AttributeError on anything that is not a mapping
GetRaises(section) == section.t # "dict"

has_data_for_phase(data, phase) ==
    IF phase = "T0_IMPACT"
    THEN "identity" \in DOMAIN data \/ "spatial" \in DOMAIN data
    ELSE TRUE

extract_uncertain(m, key) ==
    IF key \in DOMAIN m /\ ~IsNone(m[key])
    THEN UncertainProperty(m[key], "case_report", "medium")
    ELSE NoProp

extract_list_uncertain(m, key) ==
    IF key \in DOMAIN m /\ m[key].t = "list"
    THEN [i \in 1..Len(m[key].l) |->
             UncertainProperty(m[key].l[i], "case_report", "medium")]
    ELSE <<>>

BaseSections == {"identity", "spatial", "human", "built"}

create_base_situation(data) ==
    LET identity_data == SectionOf(data, "identity").m
        spatial == SectionOf(data, "spatial").m
        human == SectionOf(data, "human").m
        built == SectionOf(data, "built").m
    IN  [EarthquakeSituation EXCEPT
            !.event_identity =
                [EventIdentity EXCEPT
                    !.event_id = LeafOf(identity_data, "event_id"),
                    !.magnitude = extract_uncertain(identity_data, "magnitude"),
                    !.intensity = extract_uncertain(identity_data, "intensity")],
            !.spatial_context =
                [region_type |-> extract_uncertain(spatial, "region_type"),
                 terrain |-> extract_uncertain(spatial, "terrain"),
                 secondary_hazards |-> extract_list_uncertain(spatial, "secondary_hazards"),
                 location_description |-> LeafOf(spatial, "location_description")],
            !.human_exposure =
                [population_density |-> extract_uncertain(human, "population_density"),
                 vulnerable_groups |-> extract_list_uncertain(human, "vulnerable_groups"),
                 time_of_day_context |-> LeafOf(human, "time_of_day")],
            !.built_environment =
                [dominant_building_types |-> extract_list_uncertain(built, "building_types"),
                 construction_quality |-> extract_uncertain(built, "construction_quality"),
                 critical_infrastructure_status |-> <<>>]]

damage_of(data) ==
    LET damage == SectionOf(data, "damage").m
    IN  [building_collapse_severity |-> extract_uncertain(damage, "building_collapse"),
         access_disruption |-> extract_uncertain(damage, "access_disruption"),
         utility_failures |-> extract_list_uncertain(damage, "utility_failures"),
         visible_hazards |-> extract_list_uncertain(damage, "visible_hazards")]

WithPhase(sit, phase_str, hours) ==
    [sit EXCEPT !.event_identity.phase = PyStr(phase_str),
                !.event_identity.time_since_event_hours = PyFloat(hours)]

TimeSlice(phase, sit, label) ==
    [phase |-> phase, situation |-> sit, relative_time_label |-> label]

create_slice_t0(data) ==
    TimeSlice("T0_IMPACT",
        [WithPhase(create_base_situation(data), "immediate_impact", 0)
            EXCEPT !.damage_indicators = damage_of(data)],
        "0-6 hours")

all_actions_of(data) ==
    LET actions == SectionOf(data, "actions").m
    IN  [rescue_operations |-> extract_uncertain(actions, "rescue"),
         evacuation_status |-> extract_uncertain(actions, "evacuation"),
         medical_deployment |-> extract_uncertain(actions, "medical"),
         logistics_coordination |-> extract_uncertain(actions, "logistics")]

outcomes_of(data) ==
    LET outcomes == SectionOf(data, "outcomes").m
    IN  [casualties |-> extract_uncertain(outcomes, "casualties"),
         injuries |-> extract_uncertain(outcomes, "injuries"),
         displacement |-> extract_uncertain(outcomes, "displacement"),
         economic_loss |-> extract_uncertain(outcomes, "economic_loss")]

\* create_slice_t1 as it would be with the T2 action block copied into it.
create_slice_t1_all_actions(data) ==
    TimeSlice("T1_EARLY_RESPONSE",
        [WithPhase(create_base_situation(data), "early_response", 120)
            EXCEPT !.damage_indicators = damage_of(data),
                   !.actions_taken = all_actions_of(data)],
        "12-24 hours")

create_slice_t1(data) ==
    LET actions == SectionOf(data, "actions").m
    IN  TimeSlice("T1_EARLY_RESPONSE",
            [WithPhase(create_base_situation(data), "early_response", 120)
                EXCEPT !.damage_indicators = damage_of(data),
                       !.actions_taken =
                           [ActionsTaken EXCEPT
                               !.rescue_operations = extract_uncertain(actions, "rescue"),
                               !.evacuation_status = extract_uncertain(actions, "evacuation")]],
            "12-24 hours")

\* create_slice_t2 as it would be with the T3 outcome block copied into it.
create_slice_t2_with_outcomes(data) ==
    TimeSlice("T2_STABILIZATION",
        [WithPhase(create_base_situation(data), "stabilization", 240)
            EXCEPT !.damage_indicators = damage_of(data),
                   !.actions_taken = all_actions_of(data),
                   !.outcomes = outcomes_of(data)],
        "24-48 hours")

create_slice_t2(data) ==
    TimeSlice("T2_STABILIZATION",
        [WithPhase(create_base_situation(data), "stabilization", 240)
            EXCEPT !.damage_indicators = damage_of(data),
                   !.actions_taken = all_actions_of(data)],
        "24-48 hours")

create_slice_t3(data) ==
    TimeSlice("T3_OUTCOME",
        [WithPhase(create_base_situation(data), "outcome", 720)
            EXCEPT !.damage_indicators = damage_of(data),
                   !.actions_taken = all_actions_of(data),
                   !.outcomes = outcomes_of(data)],
        "post-event")

\* The sub-aggregates a phase creator calls .get on.
SectionsRead(phase) ==
    BaseSections \cup {"damage"}
        \cup (IF phase = "T0_IMPACT" THEN {} ELSE {"actions"})
        \cup (IF phase = "T3_OUTCOME" THEN {"outcomes"} ELSE {})

create_slice(data, phase) ==
    [raised |-> \E k \in SectionsRead(phase) : GetRaises(SectionOf(data, k)),
     slice |-> CASE phase = "T0_IMPACT" -> create_slice_t0(data)
                 [] phase = "T1_EARLY_RESPONSE" -> create_slice_t1(data)
                 [] phase = "T2_STABILIZATION" -> create_slice_t2(data)
                 [] OTHER -> create_slice_t3(data)]

\* ingest_case_study: the phases are attempted in order; an exception in any
\* creator propagates and no list is returned.
ingest_case_study(data) ==
    LET phases == SelectSeq(TimePhase, LAMBDA p : has_data_for_phase(data, p))
        made == [i \in 1..Len(phases) |-> create_slice(data, phases[i])]
    IN  IF \E i \in 1..Len(made) : made[i].raised
        THEN [status |-> "raised", slices |-> <<>>]
        ELSE [status |-> "ok", slices |-> [i \in 1..Len(made) |-> made[i].slice]]

--------------------------------------------------------------------------
(* Raw case studies handed to the ingestor.  Each sub-aggregate is absent,  *)
(* a well-formed mapping, a mapping with a leaf of the wrong type, or a     *)
(* value that is no mapping at all.                                         *)

SectionKeys == {"identity", "spatial", "human", "built", "damage", "actions", "outcomes"}

Absent == NotADict("absent")

IdentityE1 == PyDict([event_id |-> PyStr("e1"), magnitude |-> PyFloat(90)])
IdentityE2 ==
    PyDict([event_id |-> PyStr("e2"), magnitude |-> PyNone, intensity |-> PyStr("VII")])
SpatialCoastal ==
    PyDict([region_type |-> PyStr("coastal_urban"),
            secondary_hazards |-> PyList(<<PyStr("tsunami")>>)])
SpatialScalarList ==
    PyDict([region_type |-> PyStr("rural"), secondary_hazards |-> PyStr("landslide")])
HumanDense ==
    PyDict([population_density |-> PyStr("dense"),
            vulnerable_groups |-> PyList(<<PyStr("elderly")>>),
            time_of_day |-> PyStr("night")])
BuiltConcrete ==
    PyDict([building_types |-> PyList(<<PyStr("concrete"), PyStr("masonry")>>),
            construction_quality |-> PyStr("poor")])
DamageSevere ==
    PyDict([building_collapse |-> PyStr("severe"), access_disruption |-> PyStr("blocked"),
            utility_failures |-> PyList(<<PyStr("power")>>)])
ActionsEarly ==
    PyDict([rescue |-> PyStr("deployed"), medical |-> PyStr("stabilizing_triage")])
ActionsAll ==
    PyDict([rescue |-> PyStr("deployed"), evacuation |-> PyStr("completed"),
            medical |-> PyStr("field_hospital"), logistics |-> PyStr("airlift")])
OutcomesSevere ==
    PyDict([casualties |-> PyInt(15000), economic_loss |-> PyStr("catastrophic")])
OutcomesFull ==
    PyDict([casualties |-> PyInt(80), injuries |-> PyInt(300),
            displacement |-> PyInt(2000), economic_loss |-> PyStr("moderate")])

IdentityOpts == {Absent, IdentityE1, IdentityE2, NotADict("str")}
SpatialOpts == {Absent, SpatialCoastal, SpatialScalarList, NotADict("none")}
HumanOpts == {Absent, HumanDense}
BuiltOpts == {Absent, BuiltConcrete}
DamageOpts == {Absent, DamageSevere, NotADict("list")}
ActionsOpts == {Absent, ActionsEarly, ActionsAll, NotADict("str")}
OutcomesOpts == {Absent, OutcomesSevere, OutcomesFull, NotADict("str")}

MkRaw(choice) ==
    [k \in {key \in SectionKeys : choice[key].t # "absent"} |-> choice[k]]

RawInputs ==
    {MkRaw([identity |-> i, spatial |-> s, human |-> h, built |-> b,
            damage |-> d, actions |-> a, outcomes |-> o]) :
        i \in IdentityOpts, s \in SpatialOpts, h \in HumanOpts, b \in BuiltOpts,
        d \in DamageOpts, a \in ActionsOpts, o \in OutcomesOpts}

--------------------------------------------------------------------------
(* memory/experience_unit.py *)

NoOutcomes == [some |-> FALSE, val |-> Outcomes]
SomeOutcomes(o) == [some |-> TRUE, val |-> o]

ExperienceUnit(sit, phase, case_id, outcomes) ==
    [situation |-> sit, phase |-> phase, source_case_id |-> case_id,
     subsequent_outcomes |-> outcomes]

from_timeslice(slice, case_id, outcomes) ==
    ExperienceUnit(slice.situation, slice.phase, case_id, outcomes)

--------------------------------------------------------------------------
(* to_dict: canonical_state/earthquake_state.py, memory/experience_unit.py *)
(* A serialized mapping is a function from its keys; a nested value that    *)
(* may be None is PyDict(items) or JNone.                                   *)

JNone == NotADict("none")

prop_to_dict(p) ==
    IF p.some
    THEN PyDict([value |-> p.value, source |-> p.source, confidence |-> p.confidence])
    ELSE JNone

props_to_dict(ps) == [i \in 1..Len(ps) |-> prop_to_dict(ps[i])]

identity_to_dict(e) ==
    [event_id |-> e.event_id, event_type |-> e.event_type,
     magnitude |-> prop_to_dict(e.magnitude), intensity |-> prop_to_dict(e.intensity),
     phase |-> e.phase, timestamp |-> e.timestamp,
     time_since_event_hours |-> e.time_since_event_hours]

spatial_to_dict(c) ==
    [region_type |-> prop_to_dict(c.region_type), terrain |-> prop_to_dict(c.terrain),
     secondary_hazards |-> props_to_dict(c.secondary_hazards),
     location_description |-> c.location_description]

human_to_dict(h) ==
    [population_density |-> prop_to_dict(h.population_density),
     vulnerable_groups |-> props_to_dict(h.vulnerable_groups),
     time_of_day_context |-> h.time_of_day_context]

built_to_dict(b) ==
    [dominant_building_types |-> props_to_dict(b.dominant_building_types),
     construction_quality |-> prop_to_dict(b.construction_quality),
     critical_infrastructure_status |->
        [k \in DOMAIN b.critical_infrastructure_status |->
            prop_to_dict(b.critical_infrastructure_status[k])]]

damage_to_dict(d) ==
    [building_collapse_severity |-> prop_to_dict(d.building_collapse_severity),
     access_disruption |-> prop_to_dict(d.access_disruption),
     utility_failures |-> props_to_dict(d.utility_failures),
     visible_hazards |-> props_to_dict(d.visible_hazards)]

actions_to_dict(a) ==
    [rescue_operations |-> prop_to_dict(a.rescue_operations),
     evacuation_status |-> prop_to_dict(a.evacuation_status),
     medical_deployment |-> prop_to_dict(a.medical_deployment),
     logistics_coordination |-> prop_to_dict(a.logistics_coordination)]

outcomes_to_dict(o) ==
    [casualties |-> prop_to_dict(o.casualties), injuries |-> prop_to_dict(o.injuries),
     displacement |-> prop_to_dict(o.displacement),
     economic_loss |-> prop_to_dict(o.economic_loss)]

situation_to_dict(sit) ==
    [record_id |-> sit.record_id,
     event_identity |-> identity_to_dict(sit.event_identity),
     spatial_context |-> spatial_to_dict(sit.spatial_context),
     human_exposure |-> human_to_dict(sit.human_exposure),
     built_environment |-> built_to_dict(sit.built_environment),
     damage_indicators |-> damage_to_dict(sit.damage_indicators),
     actions_taken |-> actions_to_dict(sit.actions_taken),
     outcomes |-> outcomes_to_dict(sit.outcomes)]

unit_to_dict(u) ==
    [source_case_id |-> u.source_case_id, phase |-> u.phase,
     situation |-> situation_to_dict(u.situation),
     subsequent_outcomes |->
        IF u.subsequent_outcomes.some
        THEN PyDict(outcomes_to_dict(u.subsequent_outcomes.val))
        ELSE JNone]

\* EarthquakeSituation.from_dict: the body is "pass", so the call returns None.
NoSituation == [some |-> FALSE, sit |-> EarthquakeSituation]

from_dict(data) == NoSituation

--------------------------------------------------------------------------
(* memory/qdrant_interface.py: payload reconstruction *)

\* float(x), int(x), str(x).  Strings that parse as numbers:
FloatOfStr == ("7.5" :> 75) @@ ("9" :> 90)
IntOfStr == ("9" :> 9)

DecimalText(tenths) == ToString(tenths \div 10) \o "." \o ToString(tenths % 10)

ConvertRaises(type_func, v) ==
    CASE type_func = "float" ->
            v.t = "list" \/ (v.t = "str" /\ v.s \notin DOMAIN FloatOfStr)
      [] type_func = "int" ->
            v.t = "list" \/ (v.t = "str" /\ v.s \notin DOMAIN IntOfStr)
      [] OTHER -> FALSE

Convert(type_func, v) ==
    CASE type_func = "float" /\ v.t = "int" -> PyFloat(v.n * 10)
      [] type_func = "float" /\ v.t = "str" /\ v.s \in DOMAIN FloatOfStr ->
            PyFloat(FloatOfStr[v.s])
      [] type_func = "int" /\ v.t = "float" -> PyInt(v.n \div 10)
      [] type_func = "int" /\ v.t = "str" /\ v.s \in DOMAIN IntOfStr ->
            PyInt(IntOfStr[v.s])
      [] type_func = "str" /\ v.t = "int" -> PyStr(ToString(v.n))
      [] type_func = "str" /\ v.t = "float" -> PyStr(DecimalText(v.n))
      [] OTHER -> v

\* "if not data": None or an empty mapping
Falsy(node) == node.t = "none" \/ DOMAIN node.m = {}

NodeOf(m, key) == IF key \in DOMAIN m THEN m[key] ELSE JNone
ItemsOf(m, key) == IF key \in DOMAIN m THEN m[key] ELSE <<>>
TextOf(m, key, default) == IF key \in DOMAIN m THEN m[key] ELSE default

uprop_raises(node, type_func) ==
    /\ ~Falsy(node)
    /\ ~IsNone(LeafOf(node.m, "value"))
    /\ ConvertRaises(type_func, node.m["value"])

uprop(node, type_func) ==
    IF Falsy(node)
    THEN NoProp
    ELSE UncertainProperty(
            IF ~IsNone(LeafOf(node.m, "value"))
            THEN Convert(type_func, node.m["value"])
            ELSE PyNone,
            TextOf(node.m, "source", "unknown"),
            TextOf(node.m, "confidence", "unknown"))

uprop_list(nodes, type_func) ==
    LET kept == SelectSeq(nodes, LAMBDA item : ~Falsy(item))
    IN  [i \in 1..Len(kept) |-> uprop(kept[i], type_func)]

reconstruct_outcomes_raises(m) ==
    \E k \in {"casualties", "injuries", "displacement"} : uprop_raises(NodeOf(m, k), "int")

reconstruct_outcomes(m) ==
    [casualties |-> uprop(NodeOf(m, "casualties"), "int"),
     injuries |-> uprop(NodeOf(m, "injuries"), "int"),
     displacement |-> uprop(NodeOf(m, "displacement"), "int"),
     economic_loss |-> uprop(NodeOf(m, "economic_loss"), "id")]

reconstruct_situation_raises(data) ==
    \/ uprop_raises(NodeOf(ItemsOf(data, "event_identity"), "magnitude"), "float")
    \/ (ItemsOf(data, "outcomes") # <<>>
          /\ reconstruct_outcomes_raises(ItemsOf(data, "outcomes")))

reconstruct_situation(data) ==
    LET eid == ItemsOf(data, "event_identity")
        sp == ItemsOf(data, "spatial_context")
        he == ItemsOf(data, "human_exposure")
        be == ItemsOf(data, "built_environment")
        di == ItemsOf(data, "damage_indicators")
        at == ItemsOf(data, "actions_taken")
        out == ItemsOf(data, "outcomes")
        infra == ItemsOf(be, "critical_infrastructure_status")
    IN  [EarthquakeSituation EXCEPT
            !.event_identity =
                [EventIdentity EXCEPT
                    !.event_id = LeafOf(eid, "event_id"),
                    !.event_type = TextOf(eid, "event_type", "earthquake"),
                    !.magnitude = uprop(NodeOf(eid, "magnitude"), "float"),
                    !.intensity = uprop(NodeOf(eid, "intensity"), "str"),
                    !.phase = LeafOf(eid, "phase"),
                    !.time_since_event_hours = LeafOf(eid, "time_since_event_hours")],
            !.spatial_context =
                [region_type |-> uprop(NodeOf(sp, "region_type"), "id"),
                 terrain |-> uprop(NodeOf(sp, "terrain"), "id"),
                 secondary_hazards |-> uprop_list(ItemsOf(sp, "secondary_hazards"), "id"),
                 location_description |-> LeafOf(sp, "location_description")],
            !.human_exposure =
                [population_density |-> uprop(NodeOf(he, "population_density"), "id"),
                 vulnerable_groups |-> uprop_list(ItemsOf(he, "vulnerable_groups"), "id"),
                 time_of_day_context |-> LeafOf(he, "time_of_day_context")],
            !.built_environment =
                [dominant_building_types |->
                    uprop_list(ItemsOf(be, "dominant_building_types"), "id"),
                 construction_quality |-> uprop(NodeOf(be, "construction_quality"), "id"),
                 critical_infrastructure_status |->
                    [k \in DOMAIN infra |-> uprop(infra[k], "id")]],
            !.damage_indicators =
                [building_collapse_severity |->
                    uprop(NodeOf(di, "building_collapse_severity"), "id"),
                 access_disruption |-> uprop(NodeOf(di, "access_disruption"), "id"),
                 utility_failures |-> uprop_list(ItemsOf(di, "utility_failures"), "id"),
                 visible_hazards |-> uprop_list(ItemsOf(di, "visible_hazards"), "id")],
            !.actions_taken =
                [rescue_operations |-> uprop(NodeOf(at, "rescue_operations"), "id"),
                 evacuation_status |-> uprop(NodeOf(at, "evacuation_status"), "id"),
                 medical_deployment |-> uprop(NodeOf(at, "medical_deployment"), "id"),
                 logistics_coordination |->
                    uprop(NodeOf(at, "logistics_coordination"), "id")],
            !.outcomes = IF out # <<>> THEN reconstruct_outcomes(out) ELSE Outcomes]

PhaseNames == {TimePhase[i] : i \in 1..Len(TimePhase)}

\* KeyError on a missing mandatory key, ValueError on an unknown phase or a
\* value the type function rejects.
reconstruct_experience_unit_raises(payload) ==
    \/ reconstruct_situation_raises(ItemsOf(payload, "situation"))
    \/ (~Falsy(NodeOf(payload, "subsequent_outcomes"))
          /\ reconstruct_outcomes_raises(payload["subsequent_outcomes"].m))
    \/ "phase" \notin DOMAIN payload
    \/ payload["phase"] \notin PhaseNames
    \/ "source_case_id" \notin DOMAIN payload

reconstruct_experience_unit(payload) ==
    LET outcomes_dict == NodeOf(payload, "subsequent_outcomes")
    IN  ExperienceUnit(
            reconstruct_situation(ItemsOf(payload, "situation")),
            TextOf(payload, "phase", ""),
            TextOf(payload, "source_case_id", ""),
            IF ~Falsy(outcomes_dict)
            THEN SomeOutcomes(reconstruct_outcomes(outcomes_dict.m))
            ELSE NoOutcomes)

--------------------------------------------------------------------------
(* memory/qdrant_interface.py: the store *)

\* Most points the model lets the collection hold.
MaxPoints == 3

\* uuid5(NAMESPACE_DNS, name) is a hash of the name; the name stands for it.
point_id(unit) == unit.source_case_id \o "_" \o unit.phase

PointStruct(id, vector, payload) == [id |-> id, vector |-> vector, payload |-> payload]

\* Embeddings: unit vectors of a 2-dimensional space instead of 384 dimensions.
Vectors == {<<1, 0>>, <<0, 1>>}

Cosine(v, w) == v[1] * w[1] + v[2] * w[2]

\* The in-process fallback QdrantClient: upsert extends the list.
FallbackUpsert(coll, points) == coll \o points

\* The fallback search ignores the vector: the last `limit` points, newest first.
FallbackSearch(coll, vector, limit) ==
    LET n == IF limit < Len(coll) THEN limit ELSE Len(coll)
    IN  {[i \in 1..n |-> coll[Len(coll) + 1 - i]]}

\* qdrant_client's upsert: a point whose id is present replaces that point.
RECURSIVE QdrantUpsert(_, _)
QdrantUpsert(coll, points) ==
    IF points = <<>>
    THEN coll
    ELSE LET p == Head(points)
             hit == {i \in 1..Len(coll) : coll[i].id = p.id}
             next == IF hit = {}
                     THEN Append(coll, p)
                     ELSE [i \in 1..Len(coll) |-> IF i \in hit THEN p ELSE coll[i]]
         IN  QdrantUpsert(next, Tail(points))

\* qdrant_client's search: the `limit` points nearest by cosine score, best
\* first; points of equal score come in any order.
QdrantSearch(coll, vector, limit) ==
    LET n == IF limit < Len(coll) THEN limit ELSE Len(coll)
        picks == {f \in [1..n -> 1..Len(coll)] :
                    /\ \A i, j \in 1..n : i < j =>
                          /\ f[i] # f[j]
                          /\ Cosine(vector, coll[f[i]].vector)
                                >= Cosine(vector, coll[f[j]].vector)
                    /\ \A k \in 1..Len(coll) :
                          (\A i \in 1..n : f[i] # k) =>
                              \A i \in 1..n : Cosine(vector, coll[f[i]].vector)
                                                >= Cosine(vector, coll[k].vector)}
    IN  {[i \in 1..n |-> coll[f[i]]] : f \in picks}

Upsert(kind, coll, points) ==
    IF kind = "fallback" THEN FallbackUpsert(coll, points) ELSE QdrantUpsert(coll, points)

Search(kind, coll, vector, limit) ==
    IF kind = "fallback"
    THEN FallbackSearch(coll, vector, limit)
    ELSE QdrantSearch(coll, vector, limit)

store_experience(kind, coll, unit, vector) ==
    Upsert(kind, coll, <<PointStruct(point_id(unit), vector, unit_to_dict(unit))>>)

\* retrieve_candidates on the hits of one search: every hit with a payload is
\* reconstructed; an exception in a reconstruction propagates.
retrieve_candidates(hits) ==
    LET kept == SelectSeq(hits, LAMBDA h : DOMAIN h.payload # {})
    IN  IF \E i \in 1..Len(kept) : reconstruct_experience_unit_raises(kept[i].payload)
        THEN [status |-> "raised", units |-> <<>>]
        ELSE [status |-> "ok",
              units |-> [i \in 1..Len(kept) |-> reconstruct_experience_unit(kept[i].payload)]]

--------------------------------------------------------------------------
(* Experience units handed to the store *)

RawCaseA ==
    MkRaw([identity |-> IdentityE1, spatial |-> SpatialCoastal, human |-> HumanDense,
           built |-> BuiltConcrete, damage |-> DamageSevere, actions |-> ActionsEarly,
           outcomes |-> OutcomesSevere])

RawCaseARevised ==
    MkRaw([identity |-> IdentityE2, spatial |-> SpatialCoastal, human |-> Absent,
           built |-> Absent, damage |-> DamageSevere, actions |-> ActionsAll,
           outcomes |-> OutcomesFull])

\* A case whose magnitude is text: the ingestor stores it as given.
RawCaseC ==
    MkRaw([identity |-> PyDict([event_id |-> PyStr("e3"), magnitude |-> PyStr("strong")]),
           spatial |-> Absent, human |-> Absent, built |-> Absent, damage |-> Absent,
           actions |-> Absent, outcomes |-> Absent])

SliceOf(data, phase) ==
    LET sl == ingest_case_study(data).slices
    IN  sl[CHOOSE i \in 1..Len(sl) : sl[i].phase = phase]

UnitOf(data, phase, case_id) ==
    LET slice == SliceOf(data, phase)
    IN  from_timeslice(slice, case_id,
            IF phase = "T3_OUTCOME" THEN SomeOutcomes(slice.situation.outcomes)
            ELSE NoOutcomes)

\* check_step4.py: a unit built directly, with default source and confidence.
UnitCaseB ==
    ExperienceUnit(
        [EarthquakeSituation EXCEPT !.event_identity.event_id = PyStr("test_case_B")],
        "T3_OUTCOME", "case_B",
        SomeOutcomes([Outcomes EXCEPT
                         !.casualties = UncertainProperty(PyInt(50), "unknown", "unknown")]))

WellTypedUnits ==
    {UnitOf(RawCaseA, "T0_IMPACT", "case_A"),
     UnitOf(RawCaseARevised, "T0_IMPACT", "case_A"),
     UnitOf(RawCaseA, "T3_OUTCOME", "case_A"),
     UnitCaseB}

Units == WellTypedUnits \cup {UnitOf(RawCaseC, "T1_EARLY_RESPONSE", "case_C")}

Limits == {1, 5}

--------------------------------------------------------------------------
(* retrieval/similarity_engine.py *)
(* Dimension scores are counted in sixtieths (1.0 = 60), weights in         *)
(* hundredths, magnitudes in tenths; the score and the dimension scores of  *)
(* a SimilarityResult are counted in units of 0.0001 (round(x, 4)).         *)

DimUnit == 60

\* self.weights before normalisation (hundredths)
DefaultWeights == [scale |-> 30, spatial |-> 25, human |-> 20, built |-> 25]

Dimensions == {"scale", "spatial", "human", "built"}

RECURSIVE SumOver(_, _)
SumOver(f, keys) ==
    IF keys = {}
    THEN 0
    ELSE LET k == CHOOSE x \in keys : TRUE
         IN  f[k] + SumOver(f, keys \ {k})

\* round(num / den, 4) in units of 0.0001, ties to even
Round4(num, den) ==
    LET scaled == num * 10000
        q == scaled \div den
        r == scaled % den
    IN  IF 2 * r < den THEN q
        ELSE IF 2 * r > den THEN q + 1
        ELSE IF q % 2 = 0 THEN q ELSE q + 1

\* Python truthiness of a value
Truthy(v) ==
    CASE v.t = "none" -> FALSE
      [] v.t = "str" -> v.s # ""
      [] v.t = "list" -> v.l # <<>>
      [] OTHER -> v.n # 0

IsNumber(v) == v.t \in {"int", "float"}
Tenths(v) == IF v.t = "int" THEN v.n * 10 ELSE v.n
PyText(v) == Convert("str", v).s

get_val(prop) == IF prop.some THEN prop.value ELSE PyNone

get_list_vals(props) ==
    {props[i].value : i \in {j \in 1..Len(props) : ~IsNone(props[j].value)}}

Abs(x) == IF x < 0 THEN -x ELSE x
Max(a, b) == IF a > b THEN a ELSE b

compute_scale_similarity(q, c) ==
    LET q_mag == get_val(q.event_identity.magnitude)
        c_mag == get_val(c.event_identity.magnitude)
    IN  IF ~IsNone(q_mag) /\ ~IsNone(c_mag)
        THEN Max(0, DimUnit - 2 * Abs(Tenths(q_mag) - Tenths(c_mag)))
        ELSE IF ~IsNone(q_mag) \/ ~IsNone(c_mag)
        THEN 24
        ELSE 30

\* Python ==: numbers compare by value, everything else by type and content
PyEq(a, b) == IF IsNumber(a) /\ IsNumber(b) THEN Tenths(a) = Tenths(b) ELSE a = b

compute_spatial_similarity(q, c) ==
    LET q_reg == get_val(q.spatial_context.region_type)
        c_reg == get_val(c.spatial_context.region_type)
    IN  IF Truthy(q_reg) /\ Truthy(c_reg)
        THEN (IF PyEq(q_reg, c_reg) THEN DimUnit ELSE 0)
        ELSE 30

compute_human_similarity(q, c) ==
    LET q_pop == get_val(q.human_exposure.population_density)
        c_pop == get_val(c.human_exposure.population_density)
    IN  IF Truthy(q_pop) /\ Truthy(c_pop)
        THEN IF IsNumber(q_pop) /\ IsNumber(c_pop)
             THEN (IF Tenths(q_pop) = Tenths(c_pop) THEN DimUnit ELSE 0)
             ELSE (IF PyText(q_pop) = PyText(c_pop) THEN DimUnit ELSE 0)
        ELSE 30

\* compute_built_similarity with the union replaced by the sum of the sizes.
compute_built_similarity_sum(q, c) ==
    LET q_types == get_list_vals(q.built_environment.dominant_building_types)
        c_types == get_list_vals(c.built_environment.dominant_building_types)
    IN  IF q_types = {} /\ c_types = {} THEN 30
        ELSE IF q_types = {} \/ c_types = {} THEN 18
        ELSE (DimUnit * Cardinality(q_types \cap c_types))
                \div (Cardinality(q_types) + Cardinality(c_types))

compute_built_similarity(q, c) ==
    LET q_types == get_list_vals(q.built_environment.dominant_building_types)
        c_types == get_list_vals(c.built_environment.dominant_building_types)
    IN  IF q_types = {} /\ c_types = {} THEN 30
        ELSE IF q_types = {} \/ c_types = {} THEN 18
        ELSE (DimUnit * Cardinality(q_types \cap c_types))
                \div Cardinality(q_types \cup c_types)

\* str.upper() and the "in" test on strings
LowerCase == "abcdefghijklmnopqrstuvwxyz"
UpperCase == "ABCDEFGHIJKLMNOPQRSTUVWXYZ"

UpperChar(ch) ==
    IF \E i \in 1..Len(LowerCase) : SubSeq(LowerCase, i, i) = ch
    THEN LET i == CHOOSE j \in 1..Len(LowerCase) : SubSeq(LowerCase, j, j) = ch
         IN  SubSeq(UpperCase, i, i)
    ELSE ch

RECURSIVE upper(_)
upper(str) ==
    IF Len(str) = 0
    THEN ""
    ELSE UpperChar(SubSeq(str, 1, 1)) \o upper(SubSeq(str, 2, Len(str)))

LowerChar(ch) ==
    IF \E i \in 1..Len(UpperCase) : SubSeq(UpperCase, i, i) = ch
    THEN LET i == CHOOSE j \in 1..Len(UpperCase) : SubSeq(UpperCase, j, j) = ch
         IN  SubSeq(LowerCase, i, i)
    ELSE ch

RECURSIVE lower(_)
\* str.lower()
lower(str) ==
    IF Len(str) = 0
    THEN ""
    ELSE LowerChar(SubSeq(str, 1, 1)) \o lower(SubSeq(str, 2, Len(str)))

Contains(sub, str) ==
    \E i \in 1..(Len(str) - Len(sub) + 1) : SubSeq(str, i, i + Len(sub) - 1) = sub

\* is_phase_compatible without the RECOVER rule.
is_phase_compatible_no_recover(query_phase, cand_phase) ==
    LET qp == upper(query_phase)
        cp == upper(cand_phase)
    IN  \/ Contains("IMPACT", qp) /\ Contains("IMPACT", cp)
        \/ Contains("RESPONSE", qp) /\ Contains("RESPONSE", cp)
        \/ Contains("STABIL", qp) /\ Contains("STABIL", cp)
        \/ Contains("OUTCOME", qp) /\ Contains("OUTCOME", cp)

is_phase_compatible(query_phase, cand_phase) ==
    LET qp == upper(query_phase)
        cp == upper(cand_phase)
    IN  \/ Contains("IMPACT", qp) /\ Contains("IMPACT", cp)
        \/ Contains("RESPONSE", qp) /\ Contains("RESPONSE", cp)
        \/ Contains("STABIL", qp) /\ Contains("STABIL", cp)
        \/ Contains("OUTCOME", qp) /\ Contains("OUTCOME", cp)
        \/ Contains("RECOVER", qp) /\ Contains("OUTCOME", cp)

dimension_scores_of(query, cand_sit) ==
    [scale |-> compute_scale_similarity(query, cand_sit),
     spatial |-> compute_spatial_similarity(query, cand_sit),
     human |-> compute_human_similarity(query, cand_sit),
     built |-> compute_built_similarity(query, cand_sit)]

SimilarityResult(unit, score, dims, penalties) ==
    [experience_unit |-> unit, score |-> score, dimension_scores |-> dims,
     penalties |-> penalties]

\* compute_similarity with a phase penalty that raises the score.
compute_similarity_boost(weights, query, candidate) ==
    LET dim_scores == dimension_scores_of(query, candidate.situation)
        total_weight == SumOver(weights, DOMAIN weights)
        weighted == SumOver([k \in Dimensions |-> dim_scores[k] * weights[k]], Dimensions)
        query_phase == query.event_identity.phase
        mismatch == /\ Truthy(query_phase)
                    /\ ~is_phase_compatible(query_phase.s, candidate.phase)
    IN  SimilarityResult(candidate,
            IF mismatch
            THEN Round4(weighted * 6, DimUnit * total_weight * 5)
            ELSE Round4(weighted, DimUnit * total_weight),
            [k \in Dimensions |-> Round4(dim_scores[k], DimUnit)],
            IF mismatch
            THEN <<"Phase mismatch: Query '" \o query_phase.s \o "' vs Candidate '"
                     \o candidate.phase \o "'">>
            ELSE <<>>)

\* The weights are normalised by their total in __init__; the 0.8 penalty is
\* the factor 4/5.
compute_similarity(weights, query, candidate) ==
    LET dim_scores == dimension_scores_of(query, candidate.situation)
        total_weight == SumOver(weights, DOMAIN weights)
        weighted == SumOver([k \in Dimensions |-> dim_scores[k] * weights[k]], Dimensions)
        query_phase == query.event_identity.phase
        mismatch == /\ Truthy(query_phase)
                    /\ ~is_phase_compatible(query_phase.s, candidate.phase)
    IN  SimilarityResult(candidate,
            IF mismatch
            THEN Round4(weighted * 4, DimUnit * total_weight * 5)
            ELSE Round4(weighted, DimUnit * total_weight),
            [k \in Dimensions |-> Round4(dim_scores[k], DimUnit)],
            IF mismatch
            THEN <<"Phase mismatch: Query '" \o query_phase.s \o "' vs Candidate '"
                     \o candidate.phase \o "'">>
            ELSE <<>>)

--------------------------------------------------------------------------
(* Query situations and candidate units for the similarity engine, built   *)
(* the way check_step5.py builds them.                                      *)

Given(v) == UncertainProperty(v, "unknown", "unknown")

Situation(mag, region, pop, types, phase) ==
    [EarthquakeSituation EXCEPT
        !.event_identity.magnitude = mag,
        !.event_identity.phase = phase,
        !.spatial_context.region_type = region,
        !.human_exposure.population_density = pop,
        !.built_environment.dominant_building_types = types]

QueryPhases ==
    {PyNone, PyStr(""), PyStr("immediate_impact"), PyStr("early_response"),
     PyStr("Stabilization"), PyStr("outcome"), PyStr("recovery")}

QuerySituations ==
    {Situation(mag, region, pop, types, phase) :
        mag \in {NoProp, Given(PyFloat(50)), Given(PyFloat(70))},
        region \in {NoProp, Given(PyStr("urban"))},
        pop \in {NoProp, Given(PyStr("dense")), Given(PyInt(5))},
        types \in {<<>>, <<Given(PyStr("concrete"))>>,
                   <<Given(PyStr("concrete")), Given(PyStr("masonry"))>>},
        phase \in QueryPhases}

CandidateSituations ==
    {Situation(mag, region, pop, types, PyNone) :
        mag \in {NoProp, Given(PyFloat(70)), Given(PyFloat(85))},
        region \in {Given(PyStr("urban")), Given(PyStr("rural"))},
        pop \in {Given(PyStr("dense")), Given(PyStr("5")), Given(PyFloat(50))},
        types \in {<<>>, <<Given(PyStr("concrete"))>>}}

\* Candidates: units over the candidate situations, and units whose situation
\* is the query itself.
CandidatesFor(query) ==
    {ExperienceUnit(sit, phase, "case_A", NoOutcomes) :
        sit \in CandidateSituations \cup {query}, phase \in PhaseNames}

--------------------------------------------------------------------------
(* retrieval/similarity_engine.py: rank_candidates *)

\* list.sort(key=score, reverse=True) is stable: a result goes after every
\* result already placed whose score is not lower.
RECURSIVE InsertByScore(_, _)
InsertByScore(sorted, res) ==
    IF sorted = <<>> THEN <<res>>
    ELSE IF Head(sorted).score >= res.score
         THEN <<Head(sorted)>> \o InsertByScore(Tail(sorted), res)
         ELSE <<res>> \o sorted

\* A sort that puts a result before the results of equal score.
RECURSIVE InsertBeforeEqual(_, _)
InsertBeforeEqual(sorted, res) ==
    IF sorted = <<>> THEN <<res>>
    ELSE IF Head(sorted).score > res.score
         THEN <<Head(sorted)>> \o InsertBeforeEqual(Tail(sorted), res)
         ELSE <<res>> \o sorted

RECURSIVE sort_by_score_ties_reversed(_)
sort_by_score_ties_reversed(results) ==
    IF results = <<>> THEN <<>>
    ELSE InsertBeforeEqual(
             sort_by_score_ties_reversed(SubSeq(results, 1, Len(results) - 1)),
             results[Len(results)])

RECURSIVE sort_by_score(_)
sort_by_score(results) ==
    IF results = <<>> THEN <<>>
    ELSE InsertByScore(sort_by_score(SubSeq(results, 1, Len(results) - 1)),
                       results[Len(results)])

rank_candidates(weights, query, candidates) ==
    sort_by_score([i \in 1..Len(candidates) |->
                      compute_similarity(weights, query, candidates[i])])

\* Longest candidate list (and cohort) the model follows.
MaxCohort == 3

SeqsUpTo(S, n) == UNION {[1..k -> S] : k \in 0..n}

\* check_step5.py: the query, a candidate equal to it, and variations.
RankQueries ==
    {Situation(Given(PyFloat(70)), Given(PyStr("urban")), Given(PyStr("dense")),
               <<Given(PyStr("concrete"))>>, phase) :
        phase \in {PyNone, PyStr("immediate_impact")}}

RankUnit(mag, phase, case_id) ==
    ExperienceUnit(Situation(Given(PyFloat(mag)), Given(PyStr("urban")),
                             Given(PyStr("dense")), <<Given(PyStr("concrete"))>>, PyNone),
                   phase, case_id, NoOutcomes)

RankPool ==
    {RankUnit(70, "T0_IMPACT", "case_A"), RankUnit(70, "T0_IMPACT", "case_B"),
     RankUnit(50, "T3_OUTCOME", "case_C"), RankUnit(70, "T3_OUTCOME", "case_D")}

--------------------------------------------------------------------------
(* prediction/timeline_projection.py *)
(* Confidence scores are counted in thousandths; similarity                 *)
(* scores stay in units of 0.0001.                                           *)

Horizons == {"0-12h", "12-24h", "24-48h"}

\* ProjectionResult(horizon_label=label): every other field at its default.
\* secondary_risks is list(set): the model keeps the set, not the order.
ProjectionResult(label) ==
    [horizon_label |-> label, casualty_trend |-> "unknown",
     casualty_range |-> "unknown", injury_range |-> "unknown",
     collapse_progression |-> "unknown", access_disruption |-> "unknown",
     utility_degradation |-> "unknown", secondary_risks |-> {},
     confidence_score |-> 0, supporting_experience_count |-> 0]

\* The integer nearest to num / den, ties to even (round()).
RoundHalfEven(num, den) ==
    LET q == num \div den
        r == num % den
    IN  IF 2 * r < den THEN q
        ELSE IF 2 * r > den THEN q + 1
        ELSE IF q % 2 = 0 THEN q ELSE q + 1

Min(a, b) == IF a < b THEN a ELSE b

\* HorizonsOf with the forward-looking mapping carried on to T2 queries.
HorizonsOf_later_queries(query_phase, cand_phase) ==
    IF query_phase = "T0_IMPACT"
    THEN CASE cand_phase = "T0_IMPACT" -> {"0-12h"}
           [] cand_phase = "T1_EARLY_RESPONSE" -> {"12-24h"}
           [] OTHER -> {"24-48h"}
    ELSE IF query_phase = "T1_EARLY_RESPONSE"
    THEN CASE cand_phase = "T1_EARLY_RESPONSE" -> {"12-24h"}
           [] cand_phase \in {"T2_STABILIZATION", "T3_OUTCOME"} -> {"24-48h"}
           [] OTHER -> {}
    ELSE IF query_phase = "T2_STABILIZATION"
    THEN CASE cand_phase = "T2_STABILIZATION" -> {"0-12h"}
           [] cand_phase = "T3_OUTCOME" -> {"24-48h"}
           [] OTHER -> {}
    ELSE {}

\* HorizonsOf with the T3 candidates of a T1 query also counted as current.
HorizonsOf_t3_twice(query_phase, cand_phase) ==
    IF query_phase = "T0_IMPACT"
    THEN CASE cand_phase = "T0_IMPACT" -> {"0-12h"}
           [] cand_phase = "T1_EARLY_RESPONSE" -> {"12-24h"}
           [] OTHER -> {"24-48h"}
    ELSE IF query_phase = "T1_EARLY_RESPONSE"
    THEN CASE cand_phase = "T1_EARLY_RESPONSE" -> {"12-24h"}
           [] cand_phase = "T2_STABILIZATION" -> {"24-48h"}
           [] cand_phase = "T3_OUTCOME" -> {"12-24h", "24-48h"}
           [] OTHER -> {}
    ELSE {}

\* The horizon lists a candidate of phase cand_phase is appended to.
HorizonsOf(query_phase, cand_phase) ==
    IF query_phase = "T0_IMPACT"
    THEN CASE cand_phase = "T0_IMPACT" -> {"0-12h"}
           [] cand_phase = "T1_EARLY_RESPONSE" -> {"12-24h"}
           [] cand_phase = "T2_STABILIZATION" -> {"24-48h"}
           [] cand_phase = "T3_OUTCOME" -> {"24-48h"}
           [] OTHER -> {}
    ELSE IF query_phase = "T1_EARLY_RESPONSE"
    THEN (CASE cand_phase = "T1_EARLY_RESPONSE" -> {"12-24h"}
            [] cand_phase = "T2_STABILIZATION" -> {"24-48h"}
            [] OTHER -> {})
         \cup (IF cand_phase = "T3_OUTCOME" THEN {"24-48h"} ELSE {})
    ELSE {}

RECURSIVE SelectIn(_, _, _)
\* The results of the cohort appended to horizons[label], in cohort order.
SelectIn(cohort, query_phase, label) ==
    IF cohort = <<>> THEN <<>>
    ELSE LET rest == SelectIn(Tail(cohort), query_phase, label)
         IN  IF label \in HorizonsOf(query_phase, Head(cohort).experience_unit.phase)
             THEN <<Head(cohort)>> \o rest
             ELSE rest

\* The truthy values of a property over a group, in group order.
RECURSIVE TruthyValues(_)
TruthyValues(props) ==
    IF props = <<>> THEN <<>>
    ELSE IF Head(props).some /\ Truthy(Head(props).value)
         THEN <<Head(props).value>> \o TruthyValues(Tail(props))
         ELSE TruthyValues(Tail(props))

\* Counter(vals).most_common(1)[0][0]: the most frequent value, the one met
\* first among equally frequent ones.
get_mode(vals) ==
    IF vals = <<>> THEN "unknown"
    ELSE LET Count(v) == Cardinality({i \in 1..Len(vals) : vals[i] = v})
             first == CHOOSE i \in 1..Len(vals) :
                         /\ \A j \in 1..Len(vals) : Count(vals[j]) <= Count(vals[i])
                         /\ \A j \in 1..(i - 1) : Count(vals[j]) < Count(vals[i])
         IN  PyText(vals[first])

RECURSIVE SumScores(_)
SumScores(group) ==
    IF group = <<>> THEN 0 ELSE Head(group).score + SumScores(Tail(group))

\* casualty_vals of a group: subsequent_outcomes.casualties.value where given
casualty_values(group) ==
    LET has(i) == /\ group[i].experience_unit.subsequent_outcomes.some
                  /\ group[i].experience_unit.subsequent_outcomes.val.casualties.some
                  /\ ~IsNone(group[i].experience_unit.subsequent_outcomes.val.casualties.value)
    IN  {group[i].experience_unit.subsequent_outcomes.val.casualties.value :
            i \in {j \in 1..Len(group) : has(j)}}

\* horizon_confidence without the density factor
horizon_confidence_no_density(group) ==
    RoundHalfEven(SumScores(group), Len(group) * 100) * 10

\* confidence = round(avg_sim * min(1.0, len(group) / 3.0), 2); confidence
\* scores are kept in thousandths, a rounded one is a multiple of 10
horizon_confidence(group) ==
    RoundHalfEven(SumScores(group) * Min(3, Len(group)), Len(group) * 3 * 100) * 10

aggregate_horizon(label, group) ==
    IF group = <<>> THEN ProjectionResult(label)
    ELSE
      LET damage(i) == group[i].experience_unit.situation.damage_indicators
          spatial(i) == group[i].experience_unit.situation.spatial_context
          collapse_vals ==
              TruthyValues([i \in 1..Len(group) |-> damage(i).building_collapse_severity])
          access_vals ==
              TruthyValues([i \in 1..Len(group) |-> damage(i).access_disruption])
          risks ==
              UNION {{PyText(spatial(i).secondary_hazards[k].value) :
                         k \in {m \in 1..Len(spatial(i).secondary_hazards) :
                                   Truthy(spatial(i).secondary_hazards[m].value)}}
                     \cup {PyText(damage(i).visible_hazards[k].value) :
                              k \in {m \in 1..Len(damage(i).visible_hazards) :
                                        Truthy(damage(i).visible_hazards[m].value)}} :
                     i \in 1..Len(group)}
          casualty_vals == casualty_values(group)
          min_c == CHOOSE v \in casualty_vals :
                       \A w \in casualty_vals : Tenths(v) <= Tenths(w)
          max_c == CHOOSE v \in casualty_vals :
                       \A w \in casualty_vals : Tenths(v) >= Tenths(w)
      IN  [horizon_label |-> label,
           casualty_trend |->
               IF casualty_vals = {} THEN "uncertain"
               ELSE IF Tenths(max_c) > 1000 THEN "increasing" ELSE "stabilizing",
           casualty_range |->
               IF casualty_vals = {} THEN "unknown"
               ELSE PyText(min_c) \o " - " \o PyText(max_c),
           injury_range |-> "unknown",
           collapse_progression |-> get_mode(collapse_vals),
           access_disruption |-> get_mode(access_vals),
           utility_degradation |-> "unknown",
           secondary_risks |-> risks,
           confidence_score |-> horizon_confidence(group),
           supporting_experience_count |-> Len(group)]

project_timeline(query_phase, cohort) ==
    [label \in Horizons |->
        aggregate_horizon(label, SelectIn(cohort, query_phase, label))]

--------------------------------------------------------------------------
(* reasoning/intervention_reasoner.py *)

InterventionRecommendation(action, window, effect, conf, support, notes) ==
    [action_name |-> action, suggested_time_window |-> window,
     comparative_effect |-> effect, confidence_score |-> conf,
     supporting_experience_count |-> support, notes |-> notes]

NotTaken == {"none", "pending", "unknown"}

has_action(prop) ==
    /\ prop.some
    /\ ~IsNone(prop.value)
    /\ ~(prop.value.t = "str" /\ prop.value.s \in NotTaken)

\* The action keys the reasoner knows, with the field each one reads.
ActionField ==
    [rescue_operations |-> "rescue_operations", evacuation |-> "evacuation_status",
     medical_deployment |-> "medical_deployment"]

ActionKeys == DOMAIN ActionField

val_present(action_key, res) ==
    /\ action_key \in ActionKeys
    /\ has_action(res.experience_unit.situation.actions_taken[ActionField[action_key]])

potential_actions(cohort) ==
    {k \in ActionKeys : \E i \in 1..Len(cohort) : val_present(k, cohort[i])}

RECURSIVE CasualtyList(_)
\* vals of _get_avg_casualties, in group order
CasualtyList(group) ==
    IF group = <<>> THEN <<>>
    ELSE LET out == Head(group).experience_unit.subsequent_outcomes
         IN  IF out.some /\ out.val.casualties.some /\ ~IsNone(out.val.casualties.value)
             THEN <<out.val.casualties.value>> \o CasualtyList(Tail(group))
             ELSE CasualtyList(Tail(group))

RECURSIVE SumTenths(_)
SumTenths(vals) ==
    IF vals = <<>> THEN 0 ELSE Tenths(Head(vals)) + SumTenths(Tail(vals))

\* mean(vals) as the fraction sum / n (sum in tenths); n = 0 stands for None
get_avg_casualties(group) ==
    [sum |-> SumTenths(CasualtyList(group)), n |-> Len(CasualtyList(group))]

RECURSIVE SelectWith(_, _, _)
SelectWith(cohort, action_key, present) ==
    IF cohort = <<>> THEN <<>>
    ELSE LET rest == SelectWith(Tail(cohort), action_key, present)
         IN  IF val_present(action_key, Head(cohort)) = present
             THEN <<Head(cohort)>> \o rest
             ELSE rest

NoRecommendation ==
    [some |-> FALSE, rec |-> InterventionRecommendation("", "", "", 0, 0, "")]

\* round(min(0.9, cohort size / 10.0), 2), in thousandths
cohort_confidence(n_with, n_without) == Min(900, (n_with + n_without) * 100)

\* The difference as a share of the mean with the action
percent_lower_of_with(with, without) ==
    IF with.sum > 0
    THEN ((without.sum * with.n - with.sum * without.n) * 100)
             \div (without.n * with.sum)
    ELSE 0

\* int((avg_without - avg_with) / avg_without * 100), 0 when avg_without is 0
percent_lower(with, without) ==
    IF without.sum > 0
    THEN ((without.sum * with.n - with.sum * without.n) * 100)
             \div (with.n * without.sum)
    ELSE 0

\* The comparison with equal means accepted
lower_or_equal_mean(with, without) ==
    with.sum * without.n <= without.sum * with.n

\* avg_cas_with < avg_cas_without, cross-multiplied
lower_mean(with, without) ==
    with.sum * without.n < without.sum * with.n

evaluate_action(action_key, cohort) ==
    LET group_with == SelectWith(cohort, action_key, TRUE)
        group_without == SelectWith(cohort, action_key, FALSE)
        with == get_avg_casualties(group_with)
        without == get_avg_casualties(group_without)
        pct == percent_lower(with, without)
    IN  IF group_with = <<>> \/ group_without = <<>> THEN NoRecommendation
        ELSE IF with.n = 0 \/ without.n = 0 THEN NoRecommendation
        ELSE IF lower_mean(with, without)
        THEN [some |-> TRUE,
              rec |-> InterventionRecommendation(
                          action_key, "0-12h",
                          "Associated with " \o ToString(pct)
                              \o "% lower casualties in similar cases ("
                              \o ToString(with.sum \div (with.n * 10)) \o " vs "
                              \o ToString(without.sum \div (without.n * 10)) \o ")",
                          cohort_confidence(Len(group_with), Len(group_without)),
                          Len(group_with),
                          "Observational correlation only.")]
        ELSE NoRecommendation

\* The orders in which iteration may yield the elements of a set.
Orderings(S) ==
    {f \in [1..Cardinality(S) -> S] : \A i, j \in 1..Cardinality(S) : f[i] = f[j] => i = j}

RECURSIVE InsertByConfidence(_, _)
\* recommendations.sort(key=confidence_score, reverse=True), stable
InsertByConfidence(sorted, rec) ==
    IF sorted = <<>> THEN <<rec>>
    ELSE IF Head(sorted).confidence_score >= rec.confidence_score
         THEN <<Head(sorted)>> \o InsertByConfidence(Tail(sorted), rec)
         ELSE <<rec>> \o sorted

RECURSIVE sort_by_confidence(_)
sort_by_confidence(recs) ==
    IF recs = <<>> THEN <<>>
    ELSE InsertByConfidence(sort_by_confidence(SubSeq(recs, 1, Len(recs) - 1)),
                            recs[Len(recs)])

RECURSIVE EvaluateAll(_, _)
EvaluateAll(order, cohort) ==
    IF order = <<>> THEN <<>>
    ELSE LET r == evaluate_action(Head(order), cohort)
         IN  (IF r.some THEN <<r.rec>> ELSE <<>>) \o EvaluateAll(Tail(order), cohort)

\* order: the order in which the loop meets the elements of potential_actions
\* (a set of str: the iteration order is the interpreter's).  query_phase is
\* not read.
recommend_interventions(query_phase, cohort, order) ==
    sort_by_confidence(EvaluateAll(order, cohort))

--------------------------------------------------------------------------
(* uncertainty/confidence_propagation.py *)

ConfidenceAssessment(score, label, explanation, drivers) ==
    [score |-> score, label |-> label, explanation |-> explanation,
     drivers |-> drivers]

\* round(x, 2) of a score in ten-thousandths, in thousandths
round2(tenthousandths) == RoundHalfEven(tenthousandths, 100) * 10

\* _get_label on a score in ten-thousandths
get_label(tenthousandths) ==
    IF tenthousandths >= 8000 THEN "High"
    ELSE IF tenthousandths >= 5000 THEN "Medium"
    ELSE "Low"

\* str.split("-"): the positions of the separator decide the parts
DashPositions(str) == {i \in 1..Len(str) : SubSeq(str, i, i) = "-"}

RECURSIVE strip(_)
strip(str) ==
    IF str = "" THEN ""
    ELSE IF SubSeq(str, 1, 1) = " " THEN strip(SubSeq(str, 2, Len(str)))
    ELSE IF SubSeq(str, Len(str), Len(str)) = " " THEN strip(SubSeq(str, 1, Len(str) - 1))
    ELSE str

\* len(parts) == 2 and parts[0].strip() == parts[1].strip()
same_endpoints(range) ==
    /\ Cardinality(DashPositions(range)) = 1
    /\ LET i == CHOOSE k \in DashPositions(range) : TRUE
       IN  strip(SubSeq(range, 1, i - 1)) = strip(SubSeq(range, i + 1, Len(range)))

RECURSIVE Join(_, _)
Join(strs, sep) ==
    IF strs = <<>> THEN ""
    ELSE IF Len(strs) = 1 THEN strs[1]
    ELSE strs[1] \o sep \o Join(Tail(strs), sep)

\* f"{x:.2f}" of a score in ten-thousandths
Fixed2(tenthousandths) ==
    LET hundredths == RoundHalfEven(tenthousandths, 100)
    IN  ToString(hundredths \div 100) \o "." \o ToString((hundredths % 100) \div 10)
            \o ToString(hundredths % 10)

\* The cap at 0.9 instead of 0.6
sparse_cap_loose(score) == Min(score, 900)

\* raw_score = min(raw_score, 0.6)
sparse_cap(score) == Min(score, 600)

assess_projection(proj) ==
    LET sparse == proj.supporting_experience_count < 3
        capped == IF sparse THEN sparse_cap(proj.confidence_score)
                  ELSE proj.confidence_score
        weak == capped < 400
        single == /\ proj.casualty_range # "unknown"
                  /\ DashPositions(proj.casualty_range) # {}
                  /\ same_endpoints(proj.casualty_range)
                  /\ proj.supporting_experience_count < 2
        \* raw_score in ten-thousandths after the 0.8 factor
        raw_score == IF single THEN capped * 8 ELSE capped * 10
        drivers == (IF sparse THEN <<"Sparse data (<3 cases)">> ELSE <<>>)
                   \o (IF weak THEN <<"Weak similarity matches">> ELSE <<>>)
                   \o (IF single THEN <<"Single data point source">> ELSE <<>>)
        label == get_label(raw_score)
        score == round2(raw_score)
    IN  ConfidenceAssessment(
            score, label,
            "Confidence is " \o label \o " (" \o Fixed2(raw_score) \o "). Driven by: "
                \o (IF drivers = <<>> THEN "adequate evidence" ELSE Join(drivers, ", "))
                \o ".",
            drivers)

calibrate_projections(projections) ==
    [horizon \in DOMAIN projections |-> assess_projection(projections[horizon])]

MaxOf(S) == CHOOSE x \in S : \A y \in S : y <= x

\* A ceiling of 1.0 whatever the baseline
baseline_ceiling_none(base_assessments) == 1000

\* The ceiling an intervention inherits: the best baseline score
baseline_ceiling(base_assessments) ==
    IF DOMAIN base_assessments # {}
    THEN MaxOf({base_assessments[h].score : h \in DOMAIN base_assessments})
    ELSE 0

assess_intervention(rec, base_assessments) ==
    LET ceiling == baseline_ceiling(base_assessments)
        over == rec.confidence_score > ceiling
        capped == IF over THEN ceiling ELSE rec.confidence_score
        low_support == rec.supporting_experience_count < 2
        raw_score == IF low_support THEN Min(capped, 400) ELSE capped
        drivers == (IF DOMAIN base_assessments = {}
                    THEN <<"No baseline projection">> ELSE <<>>)
                   \o (IF over THEN <<"Capped by baseline uncertainty">> ELSE <<>>)
                   \o (IF low_support THEN <<"Very low support for action">> ELSE <<>>)
        label == get_label(raw_score * 10)
    IN  ConfidenceAssessment(
            round2(raw_score * 10), label,
            "Confidence is " \o label \o " (" \o Fixed2(raw_score * 10) \o "). "
                \o Join(drivers, "; ") \o ".",
            drivers)

calibrate_interventions(recommendations, base_assessments) ==
    [i \in 1..Len(recommendations) |->
        <<recommendations[i], assess_intervention(recommendations[i], base_assessments)>>]

--------------------------------------------------------------------------
(* output/response_formatter.py *)

HorizonOrder == <<"0-12h", "12-24h", "24-48h">>

FormattedProjection(horizon, trend, range_desc, label, score) ==
    [horizon |-> horizon, trend |-> trend, range_desc |-> range_desc,
     confidence_label |-> label, confidence_score |-> score]

FormattedIntervention(action, window, effect, label, score, count) ==
    [action |-> action, window |-> window, effect_desc |-> effect,
     confidence_label |-> label, confidence_score |-> score,
     evidence_count |-> count]

build_summary(sit) ==
    LET magnitude == sit.event_identity.magnitude
        region == sit.spatial_context.region_type
        has_magnitude == magnitude.some /\ Truthy(magnitude.value)
        has_region == region.some /\ Truthy(region.value)
    IN  [event_id |-> IF Truthy(sit.event_identity.event_id)
                      THEN sit.event_identity.event_id ELSE PyStr("Unknown"),
         phase |-> IF Truthy(sit.event_identity.phase)
                   THEN sit.event_identity.phase ELSE PyStr("Unknown"),
         known_facts |->
             (IF has_magnitude THEN <<"Magnitude " \o PyText(magnitude.value)>> ELSE <<>>)
             \o (IF has_region THEN <<"Region: " \o PyText(region.value)>> ELSE <<>>),
         explicit_unknowns |-> IF has_magnitude THEN <<>> ELSE <<"Magnitude">>]

RECURSIVE format_projections(_, _, _)
format_projections(order, projections, projection_conf) ==
    IF order = <<>> THEN <<>>
    ELSE LET horizon == Head(order)
             rest == format_projections(Tail(order), projections, projection_conf)
         IN  IF horizon \in DOMAIN projections /\ horizon \in DOMAIN projection_conf
             THEN <<FormattedProjection(
                        horizon,
                        projections[horizon].casualty_trend \o " casualty trend observed",
                        projections[horizon].casualty_range \o " casualties (est)",
                        projection_conf[horizon].label,
                        projection_conf[horizon].score)>> \o rest
             ELSE rest

MinOf(S) == CHOOSE x \in S : \A y \in S : x <= y

\* The highest score in place of the lowest
max_score_of(projection_conf) ==
    IF DOMAIN projection_conf = {} THEN 0
    ELSE MaxOf({projection_conf[h].score : h \in DOMAIN projection_conf})

\* min(scores) if scores else 0.0
min_score_of(projection_conf) ==
    IF DOMAIN projection_conf = {} THEN 0
    ELSE MinOf({projection_conf[h].score : h \in DOMAIN projection_conf})

\* overall_label of format_response, on a score in thousandths
overall_label(min_score) ==
    IF min_score >= 800 THEN "High"
    ELSE IF min_score >= 500 THEN "Medium"
    ELSE "Low"

\* cohort_meta is a mapping that may lack any of its keys; drivers is
\* list(set): the model keeps the set, not the order.
format_response(situation, projections, projection_conf, interventions, cohort_meta) ==
    LET min_score == min_score_of(projection_conf)
        meta(key, default) ==
            IF key \in DOMAIN cohort_meta THEN cohort_meta[key] ELSE default
    IN  [situation_summary |-> build_summary(situation),
         baseline_projections |->
             format_projections(HorizonOrder, projections, projection_conf),
         intervention_options |->
             [i \in 1..Len(interventions) |->
                 FormattedIntervention(
                     interventions[i][1].action_name,
                     interventions[i][1].suggested_time_window,
                     interventions[i][1].comparative_effect,
                     interventions[i][2].label,
                     interventions[i][2].score,
                     interventions[i][1].supporting_experience_count)],
         evidence_context |->
             [cohort_size |-> meta("cohort_size", PyInt(0)),
              dominant_patterns |->
                  meta("patterns", PyStr("Historical patterns from similar events.")),
              divergences |->
                  meta("divergences", PyStr("No major divergences inferred."))],
         confidence_overview |->
             [overall_level |-> overall_label(min_score),
              drivers |->
                  UNION {{projection_conf[h].drivers[k] :
                             k \in 1..Len(projection_conf[h].drivers)} :
                         h \in DOMAIN projection_conf}
                  \cup UNION {{interventions[i][2].drivers[k] :
                                  k \in 1..Len(interventions[i][2].drivers)} :
                              i \in 1..Len(interventions)},
              risks_gaps |->
                  <<IF min_score < 500 THEN "Sparse data" ELSE "None specific">>]]

--------------------------------------------------------------------------
(* Cohorts and stage inputs, built the way check_step6.py, check_step7.py,  *)
(* check_step8.py and check_step9.py build them.                             *)

\* A SimilarityResult over a unit built directly (dimension_scores = {}).
CohortResult(phase, case_id, collapse, hazards, actions, casualties, score) ==
    SimilarityResult(
        ExperienceUnit(
            [EarthquakeSituation EXCEPT
                !.damage_indicators.building_collapse_severity = collapse,
                !.spatial_context.secondary_hazards = hazards,
                !.actions_taken = actions],
            phase, case_id,
            IF casualties.some
            THEN SomeOutcomes([Outcomes EXCEPT !.casualties = casualties])
            ELSE NoOutcomes),
        score, <<>>, <<>>)

CohortPool ==
    {CohortResult("T0_IMPACT", "c0", Given(PyStr("severe")), <<Given(PyStr("tsunami"))>>,
                  ActionsTaken, NoProp, 9167),
     CohortResult("T0_IMPACT", "c1", Given(PyStr("moderate")), <<>>,
                  ActionsTaken, Given(PyInt(100)), 9167),
     CohortResult("T1_EARLY_RESPONSE", "c2", Given(PyStr("severe")), <<>>,
                  [ActionsTaken EXCEPT !.rescue_operations = Given(PyStr("active")),
                                       !.medical_deployment = Given(PyStr("deployed"))],
                  Given(PyInt(100)), 9000),
     CohortResult("T2_STABILIZATION", "a_0", Given(PyStr("moderate")), <<>>,
                  [ActionsTaken EXCEPT !.evacuation_status = Given(PyStr("completed"))],
                  Given(PyInt(10)), 9000),
     CohortResult("T2_STABILIZATION", "b_0", NoProp, <<Given(PyStr("fire"))>>,
                  ActionsTaken, Given(PyInt(100)), 8500),
     CohortResult("T3_OUTCOME", "c5", Given(PyStr("severe")), <<>>,
                  [ActionsTaken EXCEPT
                      !.logistics_coordination = Given(PyStr("coordinated"))],
                  Given(PyInt(10)), 8000),
     CohortResult("T2_STABILIZATION", "c6", NoProp, <<>>,
                  [ActionsTaken EXCEPT !.evacuation_status = Given(PyStr("pending"))],
                  Given(PyInt(500)), 8000)}

\* check_step7.py: three units with evacuation completed and 10 casualties,
\* then three without evacuation and 100 casualties.
Step7Cohort ==
    [i \in 1..6 |->
        IF i <= 3
        THEN CohortResult("T2_STABILIZATION", "a_" \o ToString(i - 1), NoProp, <<>>,
                 [ActionsTaken EXCEPT !.evacuation_status = Given(PyStr("completed"))],
                 Given(PyInt(10)), 9000)
        ELSE CohortResult("T2_STABILIZATION", "b_" \o ToString(i - 4), NoProp, <<>>,
                 ActionsTaken, Given(PyInt(100)), 8500)]

Cohorts == SeqsUpTo(CohortPool, MaxCohort) \cup {Step7Cohort}

\* ProjectionResults handed to the calibration directly.
GivenProjection(label, range, conf, support) ==
    [ProjectionResult(label) EXCEPT
        !.casualty_range = range, !.confidence_score = conf,
        !.supporting_experience_count = support]

ProjectionPool(label) ==
    {ProjectionResult(label),
     GivenProjection(label, "100-100", 900, 1),
     GivenProjection(label, "unknown", 300, 5),
     GivenProjection(label, "10 - 50", 800, 5),
     GivenProjection(label, "500 - 500", 600, 2),
     GivenProjection(label, "500 - 500", 450, 1),
     GivenProjection(label, "-5 - -5", 900, 1),
     GivenProjection(label, "unknown", 796, 5)}

\* The dicts over any subset of the horizons
ProjectionInputs ==
    UNION {{p \in [hs -> UNION {ProjectionPool(h) : h \in hs}] :
               \A h \in hs : p[h] \in ProjectionPool(h)} :
           hs \in SUBSET Horizons}

\* Longest recommendation list handed to the calibration directly.
MaxRecs == 2

RecommendationPool ==
    {InterventionRecommendation("evacuation", "0-12h", "good", 950, 10, ""),
     InterventionRecommendation("rescue_operations", "0-12h", "good", 500, 1, ""),
     InterventionRecommendation("medical_deployment", "0-12h", "good", 200, 3, ""),
     InterventionRecommendation("medical_deployment", "0-12h", "good", 796, 4, "")}

RecommendationInputs == SeqsUpTo(RecommendationPool, MaxRecs)

\* The horizons a caller may leave out of one of the two dicts it passes.
Omissions == {{}, {"0-12h"}}

Restrict(f, keys) == [k \in DOMAIN f \cap keys |-> f[k]]

\* The slice situation the pipeline formats: the ingested slice of a phase.
SliceSituation(phase) == SliceOf(RawCaseA, phase).situation

--------------------------------------------------------------------------
(* The three components as state machines *)

\* Calls of compute_similarity the model follows for one pair of inputs.
MaxCalls == 2

NotIngested == [status |-> "idle", slices |-> <<>>]
NotRetrieved == [status |-> "idle", units |-> <<>>]
NotRestored == [status |-> "idle", src |-> EarthquakeSituation, out |-> NoSituation]

IngestIdle == raw = <<>> /\ ingested = NotIngested
MemoryIdle ==
    /\ client = "fallback"
    /\ collection = <<>>
    /\ retrieved = NotRetrieved
    /\ restored = NotRestored
SimIdle ==
    /\ simQuery = EarthquakeSituation
    /\ simCand = ExperienceUnit(EarthquakeSituation, "T0_IMPACT", "", NoOutcomes)
    /\ simResults = <<>>
NotRanked == [status |-> "idle", results |-> <<>>]
RankIdle ==
    /\ rankQuery = EarthquakeSituation
    /\ rankCands = <<>>
    /\ ranked = NotRanked
NotDone == [status |-> "idle", out |-> <<>>]
NotFormatted ==
    [status |-> "idle", projections |-> <<>>, projection_conf |-> <<>>, out |-> <<>>]
PipeIdle ==
    /\ queryPhase = "T0_IMPACT"
    /\ topCohort = <<>>
    /\ rawProjections = NotDone
    /\ rawInterventions = NotDone
    /\ calibratedProjections = NotDone
    /\ calibratedInterventions = NotDone
    /\ systemResponse = NotFormatted

NoUnit == [made |-> FALSE, unit |-> ExperienceUnit(0, "T0_IMPACT", "", NoOutcomes)]
OwnIdle ==
    /\ sitHeap = <<>>
    /\ timeSlice = TimeSlice("T0_IMPACT", 0, "unknown")
    /\ expUnit = NoUnit
    /\ assignRaised = FALSE
NotReplayed ==
    [status |-> "idle", slices |-> <<>>, final_outcomes |-> NoOutcomes, logs |-> <<>>]
ReplayIdle ==
    /\ historicalMemory = <<>>
    /\ replayLogs = NotReplayed
NoExchange == [route |-> "none", code |-> 0]
NoClient == [kind |-> "none", text |-> "", embed |-> "", api_token |-> ""]
ApiIdle ==
    /\ environ = <<>>
    /\ process = "starting"
    /\ llm_client = NoClient
    /\ snapshotPoints = <<>>
    /\ httpResponse = NoExchange

(* Ingestion: ingest_case_study is a pure function of the raw dict; the     *)
(* caller holds a raw dict and calls it once.                               *)

InitIngest ==
    /\ raw \in RawInputs
    /\ ingested = NotIngested
    /\ MemoryIdle
    /\ SimIdle
    /\ RankIdle
    /\ PipeIdle
    /\ OwnIdle
    /\ ReplayIdle
    /\ ApiIdle

IngestCaseStudy ==
    /\ ingested.status = "idle"
    /\ ingested' = ingest_case_study(raw)
    /\ UNCHANGED <<raw, memVars, simVars, rankVars, pipeVars, ownVars, replayVars, apiVars>>

NextIngest == IngestCaseStudy

SpecIngest == InitIngest /\ [][NextIngest]_vars

(* Memory: QdrantMemory over the installed qdrant_client or, when the       *)
(* import fails, over the fallback client; the collection starts empty      *)
(* (recreate_collection in __init__).                                       *)

InitMemory ==
    /\ client \in {"qdrant", "fallback"}
    /\ collection = <<>>
    /\ retrieved = NotRetrieved
    /\ restored = NotRestored
    /\ IngestIdle
    /\ SimIdle
    /\ RankIdle
    /\ PipeIdle
    /\ OwnIdle
    /\ ReplayIdle
    /\ ApiIdle

StoreExperience(unit, vector) ==
    /\ Len(store_experience(client, collection, unit, vector)) <= MaxPoints
    /\ collection' = store_experience(client, collection, unit, vector)
    /\ UNCHANGED <<client, retrieved, restored, ingestVars, simVars, rankVars, pipeVars, ownVars, replayVars, apiVars>>

RetrieveCandidates(vector, limit) ==
    /\ \E hits \in Search(client, collection, vector, limit) :
          retrieved' = retrieve_candidates(hits)
    /\ UNCHANGED <<client, collection, restored, ingestVars, simVars, rankVars, pipeVars, ownVars, replayVars, apiVars>>

\* EarthquakeSituation.from_dict(s.to_dict()) for the situation of a unit
FromDict(sit) ==
    /\ restored' = [status |-> "done", src |-> sit,
                    out |-> from_dict(situation_to_dict(sit))]
    /\ UNCHANGED <<client, collection, retrieved, ingestVars, simVars, rankVars, pipeVars, ownVars, replayVars, apiVars>>

NextMemory ==
    \/ \E unit \in Units, vector \in Vectors : StoreExperience(unit, vector)
    \/ \E vector \in Vectors, limit \in Limits : RetrieveCandidates(vector, limit)
    \/ \E unit \in Units : FromDict(unit.situation)

SpecMemory == InitMemory /\ [][NextMemory]_vars

(* Retrieval from an index that other writers share: besides the points of  *)
(* store_experience the collection may hold points whose payload lacks a    *)
(* key that _reconstruct_experience_unit reads with payload[...].            *)

Without(payload, key) == [k \in DOMAIN payload \ {key} |-> payload[k]]

StoredPoint(unit, vector) == PointStruct(point_id(unit), vector, unit_to_dict(unit))

IndexPoints ==
    {StoredPoint(UnitOf(RawCaseA, "T0_IMPACT", "case_A"), <<1, 0>>),
     StoredPoint(UnitCaseB, <<0, 1>>),
     PointStruct("foreign_1", <<1, 0>>, Without(unit_to_dict(UnitCaseB), "phase")),
     PointStruct("foreign_2", <<0, 1>>,
                 Without(unit_to_dict(UnitOf(RawCaseA, "T3_OUTCOME", "case_A")),
                         "source_case_id"))}

\* The collections of up to MaxPoints points with distinct ids
IndexContents ==
    {c \in SeqsUpTo(IndexPoints, MaxPoints) :
        \A i, j \in 1..Len(c) : c[i].id = c[j].id => i = j}

InitRetrieve ==
    /\ client \in {"qdrant", "fallback"}
    /\ collection \in IndexContents
    /\ retrieved = NotRetrieved
    /\ restored = NotRestored
    /\ IngestIdle
    /\ SimIdle
    /\ RankIdle
    /\ PipeIdle
    /\ OwnIdle
    /\ ReplayIdle
    /\ ApiIdle

NextRetrieve ==
    \E vector \in Vectors, limit \in Limits : RetrieveCandidates(vector, limit)

SpecRetrieve == InitRetrieve /\ [][NextRetrieve]_vars

(* An ExperienceUnit and the TimeSlice it was made from.  Python objects    *)
(* are held by reference: sitHeap maps a reference to the situation object  *)
(* it denotes, and a TimeSlice or an ExperienceUnit holds the reference.    *)
(* The dataclass ExperienceUnit is frozen, TimeSlice and the classes of the *)
(* situation are not.                                                       *)

\* Most situation objects the model allocates.
MaxObjects == 2

OwnedSituations ==
    {SliceOf(RawCaseA, "T0_IMPACT").situation,
     SliceOf(RawCaseA, "T3_OUTCOME").situation,
     [EarthquakeSituation EXCEPT !.event_identity.event_id = PyStr("test_event_001")]}

EventIds == {PyStr("test_event_001"), PyStr("changed")}

UnitFields == {"situation", "phase", "source_case_id", "subsequent_outcomes"}

InitOwnership ==
    /\ sitHeap \in {<<sit>> : sit \in OwnedSituations}
    /\ timeSlice \in {TimeSlice(phase, 1, "12h") : phase \in PhaseNames}
    /\ expUnit = NoUnit
    /\ assignRaised = FALSE
    /\ IngestIdle
    /\ MemoryIdle
    /\ SimIdle
    /\ RankIdle
    /\ PipeIdle
    /\ ReplayIdle
    /\ ApiIdle

\* unit = ExperienceUnit.from_timeslice(slice, source_case_id, outcomes)
FromTimeslice(case_id, outcomes) ==
    /\ ~expUnit.made
    /\ expUnit' = [made |-> TRUE, unit |-> from_timeslice(timeSlice, case_id, outcomes)]
    /\ UNCHANGED <<sitHeap, timeSlice, assignRaised,
                   ingestVars, memVars, simVars, rankVars, pipeVars, replayVars, apiVars>>

\* unit.<field> = value: the generated __setattr__ of a frozen dataclass
\* raises FrozenInstanceError before anything is stored.
AssignUnitField(field) ==
    /\ expUnit.made
    /\ field \in UnitFields
    /\ assignRaised' = TRUE
    /\ UNCHANGED <<sitHeap, timeSlice, expUnit,
                   ingestVars, memVars, simVars, rankVars, pipeVars, replayVars, apiVars>>

\* slice.situation.event_identity.event_id = value
SetEventIdThroughSlice(value) ==
    /\ sitHeap' = [sitHeap EXCEPT ![timeSlice.situation].event_identity.event_id = value]
    /\ UNCHANGED <<timeSlice, expUnit, assignRaised,
                   ingestVars, memVars, simVars, rankVars, pipeVars, replayVars, apiVars>>

\* slice.situation.actions_taken.rescue_operations = UncertainProperty(value)
SetRescueThroughSlice(value) ==
    /\ sitHeap' = [sitHeap EXCEPT ![timeSlice.situation].actions_taken.rescue_operations =
                                      UncertainProperty(value, "unknown", "unknown")]
    /\ UNCHANGED <<timeSlice, expUnit, assignRaised,
                   ingestVars, memVars, simVars, rankVars, pipeVars, replayVars, apiVars>>

\* slice.situation = EarthquakeSituation(): the slice is bound to a new object
RebindSliceSituation ==
    /\ Len(sitHeap) < MaxObjects
    /\ sitHeap' = Append(sitHeap, EarthquakeSituation)
    /\ timeSlice' = [timeSlice EXCEPT !.situation = Len(sitHeap) + 1]
    /\ UNCHANGED <<expUnit, assignRaised,
                   ingestVars, memVars, simVars, rankVars, pipeVars, replayVars, apiVars>>

NextOwnership ==
    \/ \E case_id \in {"case_001", "case_002"},
          outcomes \in {NoOutcomes,
                        SomeOutcomes([Outcomes EXCEPT !.casualties =
                            UncertainProperty(PyInt(100), "final_report", "high")])} :
          FromTimeslice(case_id, outcomes)
    \/ \E field \in UnitFields : AssignUnitField(field)
    \/ \E value \in EventIds : SetEventIdThroughSlice(value)
    \/ \E value \in {PyStr("ongoing")} : SetRescueThroughSlice(value)
    \/ RebindSliceSituation

SpecOwnership == InitOwnership /\ [][NextOwnership]_vars

(* evaluation/retrospective_replay.py *)

\* Candidates kept after ranking: cohort_results[:5]
TopK == 5

\* final_outcomes of replay_case: the outcomes of the last slice that has
\* casualties or economic_loss, None when there is none.  An Outcomes object
\* is always truthy.
RECURSIVE final_outcomes_of(_)
final_outcomes_of(slices) ==
    IF slices = <<>> THEN NoOutcomes
    ELSE LET s == slices[Len(slices)]
         IN  IF s.situation.outcomes.casualties.some
                \/ s.situation.outcomes.economic_loss.some
             THEN SomeOutcomes(s.situation.outcomes)
             ELSE final_outcomes_of(SubSeq(slices, 1, Len(slices) - 1))

\* the lines one future slice adds to future_actions
actions_line(f_slice, label, prop) ==
    IF prop.some /\ Truthy(prop.value)
    THEN <<f_slice.phase \o ": " \o label \o "=" \o PyText(prop.value)>>
    ELSE <<>>

RECURSIVE future_actions_of(_)
future_actions_of(future_slices) ==
    IF future_slices = <<>> THEN <<>>
    ELSE LET f_slice == Head(future_slices)
             acts == f_slice.situation.actions_taken
         IN  actions_line(f_slice, "Rescue", acts.rescue_operations)
             \o actions_line(f_slice, "Evac", acts.evacuation_status)
             \o actions_line(f_slice, "Med", acts.medical_deployment)
             \o future_actions_of(Tail(future_slices))

outcome_summary_of(final_outcomes) ==
    IF ~final_outcomes.some THEN "Unknown"
    ELSE LET cas == IF final_outcomes.val.casualties.some
                    THEN PyText(final_outcomes.val.casualties.value) ELSE "?"
             loss == IF final_outcomes.val.economic_loss.some
                     THEN PyText(final_outcomes.val.economic_loss.value) ELSE "?"
         IN  "Casualties: " \o cas \o ", Loss: " \o loss

top_cohort_of(current_slice, memory) ==
    LET cohort_results == rank_candidates(DefaultWeights, current_slice.situation, memory)
    IN  SubSeq(cohort_results, 1, Min(TopK, Len(cohort_results)))

\* _process_phase; order is the iteration order of the reasoner's action set.
\* system_output is the SystemResponse, field by field as to_dict gives it.
process_phase(current_slice, memory, future_slices, final_outcomes, order) ==
    LET top_cohort == top_cohort_of(current_slice, memory)
        raw_projections == project_timeline(current_slice.phase, top_cohort)
        raw_interventions ==
            recommend_interventions(current_slice.phase, top_cohort, order)
        calibrated_projections == calibrate_projections(raw_projections)
        calibrated_interventions ==
            calibrate_interventions(raw_interventions, calibrated_projections)
        system_response ==
            format_response(current_slice.situation, raw_projections,
                            calibrated_projections, calibrated_interventions,
                            [cohort_size |-> PyInt(Len(top_cohort)),
                             patterns |-> PyStr("Evaluation Replay Mode")])
    IN  [case_id |-> system_response.situation_summary.event_id,
         phase |-> current_slice.phase,
         system_output |-> system_response,
         validation |->
             [actual_subsequent_actions |-> future_actions_of(future_slices),
              actual_final_outcomes |-> outcome_summary_of(final_outcomes)]]

--------------------------------------------------------------------------
(* Replay: replay_case slices the case, finds the final outcomes, then runs  *)
(* _process_phase once for each slice, in list order.                       *)

OutcomesInjuriesOnly == PyDict([injuries |-> PyInt(300), displacement |-> PyInt(2000)])

ReplayCases ==
    {MkRaw([identity |-> i, spatial |-> s, human |-> HumanDense, built |-> BuiltConcrete,
            damage |-> DamageSevere, actions |-> a, outcomes |-> o]) :
        i \in {Absent, IdentityE1}, s \in {Absent, SpatialCoastal},
        a \in {Absent, ActionsEarly, ActionsAll, NotADict("str")},
        o \in {Absent, OutcomesSevere, OutcomesFull, OutcomesInjuriesOnly}}

UnitsOfCohort(cohort) == [i \in 1..Len(cohort) |-> cohort[i].experience_unit]

\* check_step10.py: a memory of a few past units; the empty memory; and one
\* longer than the cohort kept.
HistoricalMemories ==
    {<<>>,
     <<UnitCaseB, UnitOf(RawCaseARevised, "T1_EARLY_RESPONSE", "case_R")>>,
     UnitsOfCohort(Step7Cohort)}

InitReplay ==
    /\ raw \in ReplayCases
    /\ ingested = NotIngested
    /\ historicalMemory \in HistoricalMemories
    /\ replayLogs = NotReplayed
    /\ MemoryIdle
    /\ SimIdle
    /\ RankIdle
    /\ PipeIdle
    /\ OwnIdle
    /\ ApiIdle

\* slices = self.ingestor.ingest_case_study(case_study_raw), then the search
\* for final_outcomes; an exception of the ingestor ends the replay.
ReplaySlice ==
    /\ replayLogs.status = "idle"
    /\ LET res == ingest_case_study(raw)
       IN  replayLogs' =
               IF res.status = "raised"
               THEN [replayLogs EXCEPT !.status = "raised"]
               ELSE [status |-> "running", slices |-> res.slices,
                     final_outcomes |-> final_outcomes_of(res.slices), logs |-> <<>>]
    /\ UNCHANGED <<historicalMemory, ingestVars, memVars, simVars, rankVars, pipeVars,
                   ownVars, apiVars>>

\* one turn of "for i, current_slice in enumerate(slices)"
ReplayPhase ==
    /\ replayLogs.status = "running"
    /\ Len(replayLogs.logs) < Len(replayLogs.slices)
    /\ LET i == Len(replayLogs.logs) + 1
           slices == replayLogs.slices
           current_slice == slices[i]
       IN  \E order \in Orderings(potential_actions(
                            top_cohort_of(current_slice, historicalMemory))) :
              replayLogs' = [replayLogs EXCEPT !.logs =
                  Append(@, process_phase(current_slice, historicalMemory,
                                          SubSeq(slices, i + 1, Len(slices)),
                                          replayLogs.final_outcomes, order))]
    /\ UNCHANGED <<historicalMemory, ingestVars, memVars, simVars, rankVars, pipeVars,
                   ownVars, apiVars>>

\* return logs
ReplayReturn ==
    /\ replayLogs.status = "running"
    /\ Len(replayLogs.logs) = Len(replayLogs.slices)
    /\ replayLogs' = [replayLogs EXCEPT !.status = "done"]
    /\ UNCHANGED <<historicalMemory, ingestVars, memVars, simVars, rankVars, pipeVars,
                   ownVars, apiVars>>

NextReplay == ReplaySlice \/ ReplayPhase \/ ReplayReturn

SpecReplay == InitReplay /\ [][NextReplay]_vars

(* services/llm_service.py and the start of api/app.py *)

\* os.environ.get(key, default); a variable that is not set is not in DOMAIN
Getenv(env, key, default) == IF key \in DOMAIN env THEN env[key] ELSE default

\* The provider SDK met at import: not installed (Groq is None), installed
\* and refusing a missing key in its constructor, or installed and accepting it.
SdkModes == {"not_installed", "refuses_no_key", "accepts_no_key"}

\* GroqLLMClient() / OpenAITextClient() / OpenAIEmbeddingClient(): a missing
\* key is only warned about; the constructor of the SDK decides.
sdk_client_raises(env, key, sdk) ==
    \/ sdk = "not_installed"
    \/ sdk = "refuses_no_key" /\ key \notin DOMAIN env

MockLLMClient == [kind |-> "mock", text |-> "mock", embed |-> "mock", api_token |-> ""]

CompositeLLMClient(text_mode, embed_mode, env) ==
    [kind |-> "composite", text |-> text_mode, embed |-> embed_mode,
     api_token |-> IF embed_mode = "huggingface" THEN Getenv(env, "HF_API_TOKEN", "")
                   ELSE Getenv(env, "OPENAI_API_KEY", "")]

\* create_llm_client: [raised, client]
create_llm_client(env, sdk) ==
    LET text_mode == lower(Getenv(env, "TEXT_LLM_PROVIDER", "groq"))
        embed_mode == lower(Getenv(env, "EMBEDDING_PROVIDER", "huggingface"))
        failed == [raised |-> TRUE, client |-> NoClient]
    IN  IF Getenv(env, "MOCK_MODE", "") = "true"
        THEN [raised |-> FALSE, client |-> MockLLMClient]
        ELSE IF text_mode = "mock" THEN [raised |-> FALSE, client |-> MockLLMClient]
        ELSE IF text_mode \notin {"groq", "openai"} THEN failed
        ELSE IF sdk_client_raises(env, IF text_mode = "groq" THEN "GROQ_API_KEY"
                                       ELSE "OPENAI_API_KEY", sdk)
             THEN failed
        ELSE IF embed_mode \notin {"huggingface", "openai"} THEN failed
        ELSE IF embed_mode = "openai" /\ sdk_client_raises(env, "OPENAI_API_KEY", sdk)
             THEN failed
        ELSE [raised |-> FALSE, client |-> CompositeLLMClient(text_mode, embed_mode, env)]

\* HuggingFaceEmbeddingClient.embed_text raises without a token; the other
\* clients hand the text to their provider.
embed_text_raises(cl) == cl.kind = "composite" /\ cl.embed = "huggingface" /\ cl.api_token = ""

EnvChoices ==
    [TEXT_LLM_PROVIDER : {"", "groq", "OpenAI", "mock", "llama"},
     EMBEDDING_PROVIDER : {"", "huggingface", "openai", "mock"},
     MOCK_MODE : {"", "true", "false"},
     GROQ_API_KEY : {"", "gsk"},
     OPENAI_API_KEY : {"", "sk"},
     HF_API_TOKEN : {"", "hf"}]

\* the environment in which the choice "" stands for a variable not set
EnvOf(choice) == [k \in {key \in DOMAIN choice : choice[key] # ""} |-> choice[k]]

InitStartup ==
    /\ environ \in {EnvOf(choice) : choice \in EnvChoices}
    /\ process = "starting"
    /\ llm_client = NoClient
    /\ snapshotPoints = <<>>
    /\ httpResponse = NoExchange
    /\ IngestIdle
    /\ MemoryIdle
    /\ SimIdle
    /\ RankIdle
    /\ PipeIdle
    /\ OwnIdle
    /\ ReplayIdle

\* module start of app.py: create_llm_client() or sys.exit(1)
Startup(sdk) ==
    /\ process = "starting"
    /\ LET made == create_llm_client(environ, sdk)
       IN  IF made.raised
           THEN /\ process' = "exited"
                /\ UNCHANGED llm_client
           ELSE /\ process' = "serving"
                /\ llm_client' = made.client
    /\ UNCHANGED <<environ, snapshotPoints, httpResponse,
                   ingestVars, memVars, simVars, rankVars, pipeVars, ownVars, replayVars>>

\* a request with a narrative reaches llm_client.embed_text first
ServeEmbedding ==
    /\ process = "serving"
    /\ httpResponse' = [route |-> "embed",
                        code |-> IF embed_text_raises(llm_client) THEN 500 ELSE 200]
    /\ UNCHANGED <<environ, process, llm_client, snapshotPoints,
                   ingestVars, memVars, simVars, rankVars, pipeVars, ownVars, replayVars>>

NextStartup ==
    \/ \E sdk \in SdkModes : Startup(sdk)
    \/ ServeEmbedding

SpecStartup == InitStartup /\ [][NextStartup]_vars

(* core/domain.py, services/ingest_service.py, services/memory_service.py   *)
(* and the two POST routes of api/app.py                                    *)

\* dict.get(key, default)
GetOr(m, key, default) == IF key \in DOMAIN m THEN m[key] ELSE default

\* DecisionSnapshot(...) as processed_case_study fills it from one item of
\* the reply; snapshot_id is a fresh uuid and is left out.
DecisionSnapshot(case_id, source_id, item) ==
    [case_study_id |-> case_id,
     source_pdf |-> source_id,
     inferred_time_window |-> GetOr(item, "inferred_time_window", PyStr("unknown")),
     location_context |-> GetOr(item, "location_context", PyStr("")),
     decision_context |-> GetOr(item, "decision_context", PyStr("")),
     uncertainties |-> GetOr(item, "uncertainties", PyList(<<>>)),
     risks_perceived |-> GetOr(item, "risks_perceived", PyList(<<>>)),
     actions_considered |-> GetOr(item, "actions_considered", PyList(<<>>)),
     action_taken_narrative |-> GetOr(item, "action_taken_narrative", PyStr(""))]

\* The reply of generate_text: text that json.loads rejects (parses = FALSE)
\* or the text of a JSON value, possibly inside a ```json fence, which the
\* two replace calls and strip remove before json.loads.
LLMReply(parses, fenced, value) == [parses |-> parses, fenced |-> fenced, value |-> value]

\* data after the try/except of processed_case_study
parsed_data(reply) == IF reply.parses THEN reply.value ELSE PyList(<<>>)

\* "for item in data": the items the loop meets, and whether iter(data) raises
iter_raises(data) == data.t \in {"none", "int", "float"}

Chars(str) == [i \in 1..Len(str) |-> PyStr(SubSeq(str, i, i))]

\* the keys of a mapping in some order
KeysOf(m) == LET order == CHOOSE f \in Orderings(DOMAIN m) : TRUE
             IN  [i \in 1..Len(order) |-> PyStr(order[i])]

iter_items(data) ==
    CASE data.t = "list" -> data.l
      [] data.t = "str" -> Chars(data.s)
      [] data.t = "dict" -> KeysOf(data.m)
      [] OTHER -> <<>>

\* processed_case_study: [raised, snapshots]; item.get raises AttributeError
\* on an item that is no mapping, outside the try.
processed_case_study(reply, source_id, case_id) ==
    LET data == parsed_data(reply)
        items == iter_items(data)
    IN  IF iter_raises(data) \/ \E i \in 1..Len(items) : items[i].t # "dict"
        THEN [raised |-> TRUE, snapshots |-> <<>>]
        ELSE [raised |-> FALSE,
              snapshots |-> [i \in 1..Len(items) |->
                                DecisionSnapshot(case_id, source_id, items[i].m)]]

\* ', '.join(value) raises TypeError unless value is iterable with str items
join_raises(value) ==
    CASE value.t = "str" -> FALSE
      [] value.t = "dict" -> FALSE
      [] value.t = "list" -> \E i \in 1..Len(value.l) : value.l[i].t # "str"
      [] OTHER -> TRUE

\* DecisionSnapshot.narrative_text
narrative_text_raises(snap) ==
    join_raises(snap.uncertainties) \/ join_raises(snap.risks_perceived)

\* store_snapshots: nothing is sent for an empty list; otherwise one upsert
\* of zip(snapshots, embeddings), each point under a fresh uuid.
zip_snapshots(snapshots, embeddings) ==
    [i \in 1..Min(Len(snapshots), Len(embeddings)) |->
        [vector |-> embeddings[i], payload |-> snapshots[i]]]

\* store_snapshots writing every pair but the last
store_snapshots_but_last(points, snapshots, embeddings) ==
    IF snapshots = <<>> THEN [upserts |-> 0, points |-> points]
    ELSE LET zipped == zip_snapshots(snapshots, embeddings)
         IN  [upserts |-> 1, points |-> points \o SubSeq(zipped, 1, Len(zipped) - 1)]

store_snapshots(points, snapshots, embeddings) ==
    IF snapshots = <<>> THEN [upserts |-> 0, points |-> points]
    ELSE [upserts |-> 1, points |-> points \o zip_snapshots(snapshots, embeddings)]

\* the loop bodies of reasoning_support's aggregation: agg = [items, seen]
NothingSeen == [items |-> <<>>, seen |-> {}]

\* the same with the membership test on the text as written
add_clean_case_sensitive(agg, text) ==
    LET clean == strip(text)
    IN  IF clean # "" /\ clean \notin agg.seen
        THEN [items |-> Append(agg.items, clean), seen |-> agg.seen \cup {clean}]
        ELSE agg

add_clean(agg, text) ==
    LET clean == strip(text)
    IN  IF clean # "" /\ lower(clean) \notin agg.seen
        THEN [items |-> Append(agg.items, clean), seen |-> agg.seen \cup {lower(clean)}]
        ELSE agg

RECURSIVE add_risks(_, _)
add_risks(agg, risks) ==
    IF risks = <<>> THEN agg
    ELSE add_risks(add_clean(agg, Head(risks).s), Tail(risks))

RECURSIVE aggregate(_, _, _)
\* "for snap, score in retrieved_results"
aggregate(results, risks, actions) ==
    IF results = <<>> THEN [risks |-> risks.items, actions |-> actions.items]
    ELSE LET snap == Head(results)
         IN  aggregate(Tail(results),
                       add_risks(risks, iter_items(snap.risks_perceived)),
                       add_clean(actions, snap.action_taken_narrative.s))

\* what makes the aggregation, or generate_decision_support before it, raise
aggregate_raises(results) ==
    \E i \in 1..Len(results) :
        \/ join_raises(results[i].risks_perceived)
        \/ results[i].action_taken_narrative.t # "str"

\* aggregated[:5], after the fallback
ListLimit == 5

top_of(items, fallback) ==
    LET filled == IF items = <<>> THEN <<fallback>> ELSE items
    IN  SubSeq(filled, 1, Min(ListLimit, Len(filled)))

(* The HTTP service: the process is serving with a working client; the     *)
(* requests are handled one at a time.  What the providers return is the    *)
(* environment's choice: the text of the extraction reply, a call that      *)
(* fails, and the order of the hits, which the vectors decide.              *)

\* Most points the decision_snapshots collection holds in the model.
MaxSnapshots == 2

ItemDuplicates ==
    [risks_perceived |-> PyList(<<PyStr("Aftershocks"), PyStr(" aftershocks "), PyStr("Fire")>>),
     action_taken_narrative |-> PyStr("Evacuate zone A")]
ItemOtherCase ==
    [risks_perceived |-> PyList(<<PyStr("FIRE"), PyStr(""), PyStr("Looting")>>),
     action_taken_narrative |-> PyStr(" evacuate zone a ")]
ItemSixRisks ==
    [decision_context |-> PyStr("bridge closed"),
     risks_perceived |-> PyList(<<PyStr("r1"), PyStr("r2"), PyStr("r3"), PyStr("r4"),
                                  PyStr("r5"), PyStr("r6")>>),
     action_taken_narrative |-> PyStr("  ")]
ItemEmpty == [inferred_time_window |-> PyStr("day 2")]
ItemNullAction ==
    [risks_perceived |-> PyList(<<PyStr("Fire")>>), action_taken_narrative |-> PyNone]
ItemNullRisks == [risks_perceived |-> PyNone, action_taken_narrative |-> PyStr("Wait")]

SnapshotItems ==
    {ItemDuplicates, ItemOtherCase, ItemSixRisks, ItemEmpty, ItemNullAction, ItemNullRisks}

ArrayReplies ==
    {LLMReply(TRUE, FALSE, PyList(<<PyDict(item)>>)) : item \in SnapshotItems}
    \cup {LLMReply(TRUE, TRUE, PyList(<<PyDict(ItemDuplicates), PyDict(ItemOtherCase)>>)),
          LLMReply(TRUE, FALSE, PyList(<<PyDict(ItemOtherCase), PyDict(ItemNullRisks)>>)),
          LLMReply(TRUE, FALSE, PyList(<<>>))}

OtherReplies ==
    {LLMReply(FALSE, FALSE, PyNone),
     LLMReply(TRUE, TRUE, PyDict([snapshots |-> PyList(<<PyDict(ItemEmpty)>>)])),
     LLMReply(TRUE, FALSE, PyDict(<<>>)),
     LLMReply(TRUE, FALSE, PyList(<<PyDict(ItemEmpty), PyStr("no further decisions")>>)),
     LLMReply(TRUE, FALSE, PyNone),
     LLMReply(TRUE, FALSE, PyStr("none found"))}

Replies == ArrayReplies \cup OtherReplies

\* the provider's vector for the i-th text of a request; its numbers are
\* not followed
Embedding(i) == [text |-> i]

IngestResponse(code, reply, raised, created, upserts) ==
    [route |-> "ingest", code |-> code, reply |-> reply, raised |-> raised,
     snapshots_created |-> created, upserts |-> upserts]

SupportResponse(code, retrieval, results, risks, actions) ==
    [route |-> "decision-support", code |-> code, retrieval |-> retrieval,
     retrieved_results |-> results, top_risks |-> risks, recommended_actions |-> actions]

ServiceEnv == [GROQ_API_KEY |-> "gsk", HF_API_TOKEN |-> "hf"]

InitService ==
    /\ environ = ServiceEnv
    /\ process = "serving"
    /\ llm_client = create_llm_client(ServiceEnv, "refuses_no_key").client
    /\ snapshotPoints = <<>>
    /\ httpResponse = NoExchange
    /\ IngestIdle
    /\ MemoryIdle
    /\ SimIdle
    /\ RankIdle
    /\ PipeIdle
    /\ OwnIdle
    /\ ReplayIdle

\* POST /api/ingest/case-study.  failAt: the embed_text call the provider
\* fails (0: none).
IngestCaseStudyRequest(case_text, case_id, reply, failAt) ==
    /\ process = "serving"
    /\ IF case_text = "" \/ case_id = ""
       THEN /\ httpResponse' = IngestResponse(400, reply, "", 0, 0)
            /\ UNCHANGED snapshotPoints
       ELSE LET made == processed_case_study(reply, "manual_input", case_id)
                snapshots == made.snapshots
                embed_raises ==
                    \E i \in 1..Len(snapshots) :
                        narrative_text_raises(snapshots[i]) \/ failAt = i
                embeddings == [i \in 1..Len(snapshots) |-> Embedding(i)]
                stored == store_snapshots(snapshotPoints, snapshots, embeddings)
            IN  IF made.raised
                THEN /\ httpResponse' = IngestResponse(500, reply, "extraction", 0, 0)
                     /\ UNCHANGED snapshotPoints
                ELSE IF embed_raises
                THEN /\ httpResponse' = IngestResponse(500, reply, "embedding", 0, 0)
                     /\ UNCHANGED snapshotPoints
                ELSE /\ Len(stored.points) <= MaxSnapshots
                     /\ snapshotPoints' = stored.points
                     /\ httpResponse' =
                            IngestResponse(200, reply, "", Len(snapshots), stored.upserts)
    /\ UNCHANGED <<environ, process, llm_client,
                   ingestVars, memVars, simVars, rankVars, pipeVars, ownVars, replayVars>>

\* retrieve_relevant(query_vector, limit=5): the payloads of the hits
RetrieveLimit == 5

retrieve_relevant(points, order) == [i \in 1..Len(order) |-> points[order[i]].payload]

HitOrders(points) ==
    LET n == Min(RetrieveLimit, Len(points))
    IN  {f \in [1..n -> 1..Len(points)] : \A i, j \in 1..n : f[i] = f[j] => i = j}

\* POST /api/reasoning/decision-support.  fails: a provider call that fails.
ReasoningSupport(narrative, order, fails) ==
    /\ process = "serving"
    /\ order \in HitOrders(snapshotPoints)
    /\ httpResponse' =
           IF narrative = ""
           THEN SupportResponse(400, FALSE, <<>>, <<>>, <<>>)
           ELSE IF fails = "embed_text"
           THEN SupportResponse(500, FALSE, <<>>, <<>>, <<>>)
           ELSE LET results == retrieve_relevant(snapshotPoints, order)
                IN  IF fails = "generate_text" \/ aggregate_raises(results)
                    THEN SupportResponse(500, TRUE, results, <<>>, <<>>)
                    ELSE LET agg == aggregate(results, NothingSeen, NothingSeen)
                         IN  SupportResponse(200, TRUE, results,
                                 top_of(agg.risks, "Risk assessment requires more data."),
                                 top_of(agg.actions, "Evaluate situation further."))
    /\ UNCHANGED <<environ, process, llm_client, snapshotPoints,
                   ingestVars, memVars, simVars, rankVars, pipeVars, ownVars, replayVars>>

NextService ==
    \/ \E case_text \in {"", "M7.1 at night"}, case_id \in {"case_1"},
          reply \in Replies, failAt \in 0..2 :
          IngestCaseStudyRequest(case_text, case_id, reply, failAt)
    \/ \E narrative \in {"", "smoke near the depot"},
          order \in HitOrders(snapshotPoints),
          fails \in {"none", "embed_text", "generate_text"} :
          ReasoningSupport(narrative, order, fails)

SpecService == InitService /\ [][NextService]_vars

(* Similarity: compute_similarity is called, possibly repeatedly, on one    *)
(* query and one candidate by an engine built with the default weights.     *)

InitSim ==
    /\ simQuery \in QuerySituations
    /\ simCand \in CandidatesFor(simQuery)
    /\ simResults = <<>>
    /\ IngestIdle
    /\ MemoryIdle
    /\ RankIdle
    /\ PipeIdle
    /\ OwnIdle
    /\ ReplayIdle
    /\ ApiIdle

ComputeSimilarity ==
    /\ Len(simResults) < MaxCalls
    /\ simResults' = Append(simResults, compute_similarity(DefaultWeights, simQuery, simCand))
    /\ UNCHANGED <<simQuery, simCand, ingestVars, memVars, rankVars, pipeVars, ownVars, replayVars, apiVars>>

NextSim == ComputeSimilarity

SpecSim == InitSim /\ [][NextSim]_vars

(* Ranking: rank_candidates is called once on a query and a candidate list. *)

InitRank ==
    /\ rankQuery \in RankQueries
    /\ rankCands \in SeqsUpTo(RankPool, MaxCohort)
    /\ ranked = NotRanked
    /\ IngestIdle
    /\ MemoryIdle
    /\ SimIdle
    /\ PipeIdle
    /\ OwnIdle
    /\ ReplayIdle
    /\ ApiIdle

RankCandidates ==
    /\ ranked.status = "idle"
    /\ ranked' = [status |-> "done",
                  results |-> rank_candidates(DefaultWeights, rankQuery, rankCands)]
    /\ UNCHANGED <<rankQuery, rankCands, ingestVars, memVars, simVars, pipeVars, ownVars, replayVars, apiVars>>

NextRank == RankCandidates

SpecRank == InitRank /\ [][NextRank]_vars

(* The evidence pipeline of RetrospectiveReplay._process_phase: projection, *)
(* intervention reasoning, calibration of both, formatting, in that order.  *)

InitPipeline ==
    /\ queryPhase \in PhaseNames
    /\ topCohort \in Cohorts
    /\ rawProjections = NotDone
    /\ rawInterventions = NotDone
    /\ calibratedProjections = NotDone
    /\ calibratedInterventions = NotDone
    /\ systemResponse = NotFormatted
    /\ IngestIdle
    /\ MemoryIdle
    /\ SimIdle
    /\ RankIdle
    /\ OwnIdle
    /\ ReplayIdle
    /\ ApiIdle

ProjectTimeline ==
    /\ rawProjections.status = "idle"
    /\ rawProjections' = [status |-> "done", out |-> project_timeline(queryPhase, topCohort)]
    /\ UNCHANGED <<queryPhase, topCohort, rawInterventions, calibratedProjections, calibratedInterventions, systemResponse,
                   ingestVars, memVars, simVars, rankVars,
                   ownVars, replayVars, apiVars>>

RecommendInterventions ==
    /\ rawProjections.status = "done"
    /\ rawInterventions.status = "idle"
    /\ \E order \in Orderings(potential_actions(topCohort)) :
          rawInterventions' = [status |-> "done",
                   out |-> recommend_interventions(queryPhase, topCohort, order)]
    /\ UNCHANGED <<queryPhase, topCohort, rawProjections, calibratedProjections, calibratedInterventions, systemResponse,
                   ingestVars, memVars, simVars, rankVars,
                   ownVars, replayVars, apiVars>>

CalibrateProjections ==
    /\ rawInterventions.status = "done"
    /\ calibratedProjections.status = "idle"
    /\ calibratedProjections' = [status |-> "done", out |-> calibrate_projections(rawProjections.out)]
    /\ UNCHANGED <<queryPhase, topCohort, rawProjections, rawInterventions, calibratedInterventions, systemResponse,
                   ingestVars, memVars, simVars, rankVars,
                   ownVars, replayVars, apiVars>>

CalibrateInterventions ==
    /\ calibratedProjections.status = "done"
    /\ calibratedInterventions.status = "idle"
    /\ calibratedInterventions' = [status |-> "done",
                   out |-> calibrate_interventions(rawInterventions.out, calibratedProjections.out)]
    /\ UNCHANGED <<queryPhase, topCohort, rawProjections, rawInterventions, calibratedProjections, systemResponse,
                   ingestVars, memVars, simVars, rankVars,
                   ownVars, replayVars, apiVars>>

\* format_response on the rawProjections and assessments without the horizons
\* the caller left out of each.
FormatResponse(omitProj, omitConf) ==
    /\ calibratedInterventions.status = "done"
    /\ systemResponse.status = "idle"
    /\ LET projs == Restrict(rawProjections.out, Horizons \ omitProj)
           confs == Restrict(calibratedProjections.out, Horizons \ omitConf)
       IN  systemResponse' =
               [status |-> "done", projections |-> projs, projection_conf |-> confs,
                out |-> format_response(
                            SliceSituation(queryPhase), projs, confs, calibratedInterventions.out,
                            [cohort_size |-> PyInt(Len(topCohort)),
                             patterns |-> PyStr("Evaluation Replay Mode")])]
    /\ UNCHANGED <<queryPhase, topCohort, rawProjections, rawInterventions, calibratedProjections, calibratedInterventions,
                   ingestVars, memVars, simVars, rankVars,
                   ownVars, replayVars, apiVars>>

NextPipeline ==
    \/ ProjectTimeline
    \/ RecommendInterventions
    \/ CalibrateProjections
    \/ CalibrateInterventions
    \/ FormatResponse({}, {})

SpecPipeline == InitPipeline /\ [][NextPipeline]_vars

(* The calibrator and the formatter on rawProjections and recommendations     *)
(* handed to them directly, as check_step8.py and check_step9.py do.        *)

InitCalibrate ==
    /\ queryPhase = "T0_IMPACT"
    /\ topCohort = <<>>
    /\ rawProjections \in {[status |-> "done", out |-> p] : p \in ProjectionInputs}
    /\ rawInterventions \in {[status |-> "done", out |-> r] : r \in RecommendationInputs}
    /\ calibratedProjections = NotDone
    /\ calibratedInterventions = NotDone
    /\ systemResponse = NotFormatted
    /\ IngestIdle
    /\ MemoryIdle
    /\ SimIdle
    /\ RankIdle
    /\ OwnIdle
    /\ ReplayIdle
    /\ ApiIdle

NextCalibrate ==
    \/ CalibrateProjections
    \/ CalibrateInterventions
    \/ \E omitProj \in Omissions, omitConf \in Omissions :
          FormatResponse(omitProj, omitConf)

SpecCalibrate == InitCalibrate /\ [][NextCalibrate]_vars

--------------------------------------------------------------------------
(* Claims about ingestion *)

SlicesOut == {ingested.slices[i] : i \in 1..Len(ingested.slices)}

SliceAt(phase) == {sl \in SlicesOut : sl.phase = phase}

EarlyPhases == {"T0_IMPACT", "T1_EARLY_RESPONSE", "T2_STABILIZATION"}

OutcomesEmpty(sit) ==
    /\ ~sit.outcomes.casualties.some
    /\ ~sit.outcomes.injuries.some
    /\ ~sit.outcomes.displacement.some
    /\ ~sit.outcomes.economic_loss.some

ContentUpTo(phase) ==
    BaseSections \cup {"damage"}
        \cup (IF phase = "T0_IMPACT" THEN {} ELSE {"actions"})
        \cup (IF phase = "T3_OUTCOME" THEN {"outcomes"} ELSE {})

HoldsDataFor(data, phase) == DOMAIN data \cap ContentUpTo(phase) # {}

PhaseIndex(phase) == CHOOSE i \in 1..Len(TimePhase) : TimePhase[i] = phase

\* C3: ingest_case_study returns exactly one slice for each phase the raw input
\* holds data for and none for any other phase, in strictly increasing phase
\* order; an input with identity, damage, actions and outcomes gives four.
C3_OneSlicePerPhasePresent ==
    ingested.status = "ok" =>
        /\ \A p \in {TimePhase[i] : i \in 1..Len(TimePhase)} :
              Cardinality({i \in 1..Len(ingested.slices) : ingested.slices[i].phase = p})
                  = IF HoldsDataFor(raw, p) THEN 1 ELSE 0
        /\ \A i, j \in 1..Len(ingested.slices) :
              i < j => PhaseIndex(ingested.slices[i].phase)
                          < PhaseIndex(ingested.slices[j].phase)
        /\ {"identity", "damage", "actions", "outcomes"} \subseteq DOMAIN raw
              => Len(ingested.slices) = 4

\* C4: ingest_case_study({}) returns an empty slice list.
C4_EmptyInputNoSlices ==
    (ingested.status # "idle" /\ DOMAIN raw = {}) =>
        (ingested.status = "ok" /\ ingested.slices = <<>>)

\* A sub-aggregate that is no mapping, or a list field holding no list.
ListLeaves ==
    [spatial |-> {"secondary_hazards"}, human |-> {"vulnerable_groups"},
     built |-> {"building_types"}, damage |-> {"utility_failures", "visible_hazards"}]

Malformed(data) ==
    \/ \E k \in DOMAIN data : data[k].t # "dict"
    \/ \E k \in DOMAIN data \cap DOMAIN ListLeaves :
          \E leaf \in ListLeaves[k] \cap DOMAIN data[k].m :
              data[k].m[leaf].t \notin {"list", "none"}

\* C5: a raw dict with a sub-aggregate or leaf of the wrong type does not make
\* ingest_case_study fail: it still returns its slices.
C5_MalformedNotFatal ==
    (ingested.status # "idle" /\ Malformed(raw)) => ingested.status = "ok"

--------------------------------------------------------------------------
(* Claims about the memory store *)

PointsWithId(coll, id) == {i \in 1..Len(coll) : coll[i].id = id}

\* C6: store_experience is idempotent on the id derived from (source_case_id,
\* phase): after any store the collection holds exactly one point for the
\* stored unit's id, that point carries the payload just stored (last writer
\* wins), and retrieval never returns two units for one (source_case_id, phase).
C6_StoreIdempotent ==
    [][/\ \A unit \in Units, vector \in Vectors :
             StoreExperience(unit, vector) =>
                 /\ Cardinality(PointsWithId(collection', point_id(unit))) = 1
                 /\ \A i \in PointsWithId(collection', point_id(unit)) :
                       collection'[i].payload = unit_to_dict(unit)
       /\ \A i, j \in 1..Len(retrieved'.units) :
             (/\ retrieved'.units[i].source_case_id = retrieved'.units[j].source_case_id
              /\ retrieved'.units[i].phase = retrieved'.units[j].phase) => i = j]_vars

\* A from_dict call gives back the situation whose to_dict mapping it was given.
FromDictRoundTrip ==
    \A unit \in Units :
        FromDict(unit.situation) =>
            (restored'.out.some /\ restored'.out.sit = unit.situation)

\* A retrieval succeeds and each retrieved unit is the unit some point of the
\* collection was stored from, with its source_case_id, phase, situation and
\* subsequent_outcomes.
RetrievedAsStored(units) ==
    \A vector \in Vectors, limit \in Limits :
        (/\ RetrieveCandidates(vector, limit)
         /\ \A k \in 1..Len(collection) :
               \E unit \in units : collection[k].payload = unit_to_dict(unit)) =>
            /\ retrieved'.status = "ok"
            /\ \A i \in 1..Len(retrieved'.units) :
                  \E k \in 1..Len(collection), unit \in units :
                      /\ collection[k].payload = unit_to_dict(unit)
                      /\ retrieved'.units[i] = unit

\* C7: round trip: deserializing the serialized mapping of a situation gives
\* the situation back, through EarthquakeSituation.from_dict and through the
\* payload reconstruction of retrieve_candidates.
C7_RoundTrip == [][FromDictRoundTrip /\ RetrievedAsStored(Units)]_vars

--------------------------------------------------------------------------
(* Claims about the similarity engine *)

Results == {simResults[i] : i \in 1..Len(simResults)}

PhaseKeywords == {"IMPACT", "RESPONSE", "STABIL", "OUTCOME"}

SharesKeyword(query_phase, cand_phase) ==
    \/ \E k \in PhaseKeywords :
          Contains(k, upper(query_phase)) /\ Contains(k, cand_phase)
    \/ Contains("RECOVER", upper(query_phase)) /\ Contains("OUTCOME", cand_phase)

\* The weighted sum of the dimension scores, as a fraction num / den.
WeightedNum ==
    LET d == dimension_scores_of(simQuery, simCand.situation)
    IN  d.scale * 30 + d.spatial * 25 + d.human * 20 + d.built * 25

WeightedDen == DimUnit * 100

\* C9: for a non-empty query phase, when the phases share no keyword the score
\* is the weighted sum times 0.8 and the penalties record the mismatch; when
\* they share one the score is the weighted sum and the penalties are empty.
C9_PhasePenalty ==
    \A r \in Results :
        (simQuery.event_identity.phase.t = "str" /\ simQuery.event_identity.phase.s # "") =>
            IF SharesKeyword(simQuery.event_identity.phase.s, simCand.phase)
            THEN /\ r.score = Round4(WeightedNum, WeightedDen)
                 /\ r.penalties = <<>>
            ELSE /\ r.score = Round4(WeightedNum * 8, WeightedDen * 10)
                 /\ Len(r.penalties) = 1
                 /\ Contains("Phase mismatch", r.penalties[1])
                 /\ Contains(simQuery.event_identity.phase.s, r.penalties[1])
                 /\ Contains(simCand.phase, r.penalties[1])

\* A "recovery" query met a T3_OUTCOME candidate and got no penalty.
C9_Witness ==
    /\ simResults # <<>>
    /\ simQuery.event_identity.phase = PyStr("recovery")
    /\ simCand.phase = "T3_OUTCOME"
    /\ simResults[1].penalties = <<>>
    /\ simResults[1].score > 0

SelfAtT0 == simCand.situation = simQuery /\ simCand.phase = "T0_IMPACT"

\* C10 as stated: for every S, compute_similarity(S, unit of situation S and
\* phase T0_IMPACT) scores at least 0.8 with no penalty.
C10_SelfSimilarAnyS ==
    SelfAtT0 => \A r \in Results : r.score >= 8000 /\ r.penalties = <<>>

\* Dimensions of S that fall back to a default score against S itself.
MissingDims(sit) ==
    (IF IsNone(get_val(sit.event_identity.magnitude)) THEN {"scale"} ELSE {})
        \cup (IF Truthy(get_val(sit.spatial_context.region_type)) THEN {} ELSE {"spatial"})
        \cup (IF Truthy(get_val(sit.human_exposure.population_density)) THEN {} ELSE {"human"})
        \cup (IF get_list_vals(sit.built_environment.dominant_building_types) = {}
              THEN {"built"} ELSE {})

NamesImpactOrNothing(phase) ==
    ~Truthy(phase) \/ Contains("IMPACT", upper(phase.s))

\* C10 amended: when S has no phase string or one naming IMPACT, and at most
\* one of its four dimensions is missing, the score is at least 0.8 with no
\* penalty; with no dimension missing the score is 1.0.
C10_SelfSimilar ==
    (SelfAtT0 /\ NamesImpactOrNothing(simQuery.event_identity.phase)) =>
        \A r \in Results :
            /\ r.penalties = <<>>
            /\ Cardinality(MissingDims(simQuery)) <= 1 => r.score >= 8000
            /\ MissingDims(simQuery) = {} => r.score = 10000

\* The check_step5.py case: a fully populated S with phase "immediate_impact".
C10_Witness ==
    /\ SelfAtT0
    /\ simQuery.event_identity.phase = PyStr("immediate_impact")
    /\ MissingDims(simQuery) = {}
    /\ simResults # <<>>
    /\ simResults[1].score = 10000

--------------------------------------------------------------------------
(* Claims about ranking *)

\* The bijections of 1..n onto itself.
PermutationsOf(n) ==
    {f \in [1..n -> 1..n] : \A i, j \in 1..n : f[i] = f[j] => i = j}

\* C11: rank_candidates returns one result per input candidate (a permutation
\* of the input), sorted by score descending, with candidates of equal score
\* kept in their input order.
C11_RankIsStableSortedPermutation ==
    ranked.status = "done" =>
        /\ Len(ranked.results) = Len(rankCands)
        /\ \E f \in PermutationsOf(Len(rankCands)) :
              /\ \A i \in 1..Len(rankCands) :
                    ranked.results[i] =
                        compute_similarity(DefaultWeights, rankQuery, rankCands[f[i]])
              /\ \A i, j \in 1..Len(rankCands) :
                    i < j =>
                        \/ ranked.results[i].score > ranked.results[j].score
                        \/ /\ ranked.results[i].score = ranked.results[j].score
                           /\ f[i] < f[j]

\* Three candidates were ranked: the lower-scoring one given first comes out
\* last, and the two of equal score keep their input order.
C11_Witness ==
    /\ ranked.status = "done"
    /\ Len(rankCands) = 3
    /\ rankCands[1].source_case_id = "case_C"
    /\ rankCands[2].source_case_id = "case_B"
    /\ rankCands[3].source_case_id = "case_A"
    /\ ranked.results[1].experience_unit.source_case_id = "case_B"
    /\ ranked.results[2].experience_unit.source_case_id = "case_A"
    /\ ranked.results[3].experience_unit.source_case_id = "case_C"
    /\ ranked.results[1].score = ranked.results[2].score

--------------------------------------------------------------------------
(* Claims about the timeline projection *)

\* The horizon table of the two early query phases; "-" is no horizon.
HorizonTable ==
    [T0_IMPACT |->
        [T0_IMPACT |-> "0-12h", T1_EARLY_RESPONSE |-> "12-24h",
         T2_STABILIZATION |-> "24-48h", T3_OUTCOME |-> "24-48h"],
     T1_EARLY_RESPONSE |->
        [T0_IMPACT |-> "-", T1_EARLY_RESPONSE |-> "12-24h",
         T2_STABILIZATION |-> "24-48h", T3_OUTCOME |-> "24-48h"]]

SupportOf(label) == rawProjections.out[label].supporting_experience_count

\* C12: project_timeline assigns every cohort candidate to at most one
\* horizon, following the table for the query phases T0 and T1, so that the
\* supporting counts of the three horizons sum to at most the cohort size.
C12_OneHorizonPerCandidate ==
    rawProjections.status = "done" =>
        /\ SupportOf("0-12h") + SupportOf("12-24h") + SupportOf("24-48h")
               <= Len(topCohort)
        /\ queryPhase \in DOMAIN HorizonTable =>
              \A label \in Horizons :
                  SupportOf(label) =
                      Cardinality({i \in 1..Len(topCohort) :
                          HorizonTable[queryPhase][topCohort[i].experience_unit.phase]
                              = label})

\* A T1 query over a T0, a T2 and a T3 candidate: the T0 candidate is in no
\* horizon, the other two count toward 24-48h.
C12_Witness ==
    /\ rawProjections.status = "done"
    /\ queryPhase = "T1_EARLY_RESPONSE"
    /\ Len(topCohort) = 3
    /\ topCohort[1].experience_unit.phase = "T0_IMPACT"
    /\ topCohort[2].experience_unit.phase = "T2_STABILIZATION"
    /\ topCohort[3].experience_unit.phase = "T3_OUTCOME"
    /\ SupportOf("24-48h") = 2
    /\ SupportOf("0-12h") = 0
    /\ SupportOf("12-24h") = 0

HorizonGroup(label) == SelectIn(topCohort, queryPhase, label)

\* mean score times min(1, count / 3), rounded to hundredths, in thousandths
ExpectedConfidence(group) ==
    IF Len(group) >= 3
    THEN RoundHalfEven(SumScores(group), Len(group) * 100) * 10
    ELSE RoundHalfEven(SumScores(group), 3 * 100) * 10

HasCasualtyData(res) ==
    /\ res.experience_unit.subsequent_outcomes.some
    /\ res.experience_unit.subsequent_outcomes.val.casualties.some
    /\ ~IsNone(res.experience_unit.subsequent_outcomes.val.casualties.value)

\* C13: for every horizon group the projected confidence is the mean
\* similarity score times min(1, count / 3) rounded to 2 decimals, with the
\* group size as supporting count; an empty horizon has confidence 0, support
\* 0 and trend "unknown"; a non-empty group without casualty data has trend
\* "uncertain" and range "unknown".
C13_HorizonConfidence ==
    rawProjections.status = "done" =>
        \A label \in Horizons :
            LET group == HorizonGroup(label)
                proj == rawProjections.out[label]
            IN  /\ proj.supporting_experience_count = Len(group)
                /\ group = <<>> =>
                      /\ proj.confidence_score = 0
                      /\ proj.casualty_trend = "unknown"
                /\ group # <<>> =>
                      /\ proj.confidence_score = ExpectedConfidence(group)
                      /\ (\A i \in 1..Len(group) : ~HasCasualtyData(group[i])) =>
                            /\ proj.casualty_trend = "uncertain"
                            /\ proj.casualty_range = "unknown"

\* A T0 query: one T0 candidate of score 0.9167 without casualty data gives
\* 0-12h confidence 0.31 and trend "uncertain"; 12-24h is empty; 24-48h has
\* two candidates.
C13_Witness ==
    /\ rawProjections.status = "done"
    /\ queryPhase = "T0_IMPACT"
    /\ rawProjections.out["0-12h"].supporting_experience_count = 1
    /\ rawProjections.out["0-12h"].confidence_score = 310
    /\ rawProjections.out["0-12h"].casualty_trend = "uncertain"
    /\ rawProjections.out["12-24h"].casualty_trend = "unknown"
    /\ rawProjections.out["24-48h"].supporting_experience_count = 2

--------------------------------------------------------------------------
(* Claims about the confidence calibration *)

\* The casualty ranges "v - v" among those handed to the calibrator.
SingleValueRanges == {"100-100", "500 - 500", "-5 - -5"}

\* Those of them whose value carries no minus sign.
UnsignedSingleValueRanges == {"100-100", "500 - 500"}

DriversOf(assessment) == {assessment.drivers[k] : k \in 1..Len(assessment.drivers)}

\* C14: projection calibration applies in order: support < 3 caps the score
\* at 0.6 and adds "Sparse data (<3 cases)"; a score below 0.4 adds "Weak
\* similarity matches"; a range "v - v" with support < 2 multiplies the score
\* by 0.8 and adds "Single data point source".  A horizon with one candidate
\* and range "v - v" has calibrated score <= 0.48 and both the sparse-data
\* and the single-data-point driver.
C14_ProjectionCalibration ==
    calibratedProjections.status = "done" =>
        \A h \in DOMAIN rawProjections.out :
            LET proj == rawProjections.out[h]
                assessment == calibratedProjections.out[h]
                sparse == proj.supporting_experience_count < 3
                capped == IF sparse /\ proj.confidence_score > 600
                          THEN 600 ELSE proj.confidence_score
                weak == capped < 400
                single == /\ proj.casualty_range \in SingleValueRanges
                          /\ proj.supporting_experience_count < 2
            IN  /\ assessment.drivers =
                      (IF sparse THEN <<"Sparse data (<3 cases)">> ELSE <<>>)
                      \o (IF weak THEN <<"Weak similarity matches">> ELSE <<>>)
                      \o (IF single THEN <<"Single data point source">> ELSE <<>>)
                /\ assessment.score =
                      IF single THEN RoundHalfEven(capped * 8, 100) * 10
                      ELSE RoundHalfEven(capped, 10) * 10
                /\ (/\ proj.supporting_experience_count = 1
                    /\ proj.casualty_range \in SingleValueRanges) =>
                       /\ assessment.score <= 480
                       /\ "Sparse data (<3 cases)" \in DriversOf(assessment)
                       /\ "Single data point source" \in DriversOf(assessment)

\* With one candidate and a value that carries no minus sign, the score is
\* at most 0.48 and the single-data-point driver is present.
UnsignedSingleValueCapped ==
    calibratedProjections.status = "done" =>
        \A h \in DOMAIN rawProjections.out :
            (/\ rawProjections.out[h].casualty_range \in UnsignedSingleValueRanges
             /\ rawProjections.out[h].supporting_experience_count = 1) =>
                /\ calibratedProjections.out[h].score <= 480
                /\ "Single data point source" \in DriversOf(calibratedProjections.out[h])

\* check_step8.py: confidence 0.9 on one case with range "100-100" is
\* calibrated to 0.48 with the two drivers.
C14_Witness ==
    /\ calibratedProjections.status = "done"
    /\ "0-12h" \in DOMAIN rawProjections.out
    /\ rawProjections.out["0-12h"].casualty_range = "100-100"
    /\ rawProjections.out["0-12h"].confidence_score = 900
    /\ rawProjections.out["0-12h"].supporting_experience_count = 1
    /\ calibratedProjections.out["0-12h"].score = 480
    /\ calibratedProjections.out["0-12h"].drivers =
           <<"Sparse data (<3 cases)", "Single data point source">>

\* The best calibrated projection score, 0 when there is no baseline.
BestBaseline ==
    IF DOMAIN calibratedProjections.out = {} THEN 0
    ELSE CHOOSE x \in {calibratedProjections.out[h].score :
                          h \in DOMAIN calibratedProjections.out} :
             \A h \in DOMAIN calibratedProjections.out :
                 calibratedProjections.out[h].score <= x

\* C15: monotone confidence: the calibrated score of every recommendation is
\* at most the maximum calibrated projection score (0 without a baseline),
\* "Capped by baseline uncertainty" is a driver exactly when the raw
\* confidence exceeded that ceiling, and support < 2 caps the score at 0.4.
C15_InterventionCappedByBaseline ==
    calibratedInterventions.status = "done" =>
        \A i \in 1..Len(calibratedInterventions.out) :
            LET rec == calibratedInterventions.out[i][1]
                assessment == calibratedInterventions.out[i][2]
            IN  /\ rec = rawInterventions.out[i]
                /\ assessment.score <= BestBaseline
                /\ ("Capped by baseline uncertainty" \in DriversOf(assessment))
                       <=> (rec.confidence_score > BestBaseline)
                /\ rec.supporting_experience_count < 2 => assessment.score <= 400

\* check_step8.py: a baseline calibrated to 0.3 caps a recommendation of raw
\* confidence 0.95 at 0.3; beside it a recommendation of confidence 0.2 is
\* left uncapped.
C15_Witness ==
    /\ calibratedInterventions.status = "done"
    /\ BestBaseline = 300
    /\ Len(calibratedInterventions.out) = 2
    /\ calibratedInterventions.out[1][1].confidence_score = 950
    /\ calibratedInterventions.out[1][2].score = 300
    /\ "Capped by baseline uncertainty" \in DriversOf(calibratedInterventions.out[1][2])
    /\ calibratedInterventions.out[2][1].confidence_score = 200
    /\ calibratedInterventions.out[2][2].score = 200
    /\ calibratedInterventions.out[2][2].drivers = <<>>

--------------------------------------------------------------------------
(* Claims about the pipeline chain and the intervention reasoner *)

FormattedFor(label) ==
    {systemResponse.out.baseline_projections[i] :
        i \in {k \in 1..Len(systemResponse.out.baseline_projections) :
                  systemResponse.out.baseline_projections[k].horizon = label}}

\* C16: confidence never increases along retrieve -> project -> calibrate ->
\* format: for every horizon with candidates the calibrated projection score
\* is at most the projector's raw confidence, which is at most the mean
\* similarity score of the horizon's candidates (scores in 0.0001, confidence
\* in 0.001), and the formatted projection carries the calibrated score.
C16_ConfidenceNeverIncreases ==
    systemResponse.status = "done" =>
        \A label \in Horizons :
            LET group == HorizonGroup(label)
            IN  /\ calibratedProjections.out[label].score
                       <= rawProjections.out[label].confidence_score
                /\ group # <<>> =>
                       rawProjections.out[label].confidence_score * 10 * Len(group)
                           <= SumScores(group)
                /\ \E f \in FormattedFor(label) :
                       f.confidence_score = calibratedProjections.out[label].score

TakenIn(action, res) ==
    LET field == IF action = "evacuation" THEN "evacuation_status" ELSE action
        prop == res.experience_unit.situation.actions_taken[field]
    IN  /\ prop.some
        /\ prop.value # PyNone
        /\ prop.value \notin {PyStr("none"), PyStr("pending"), PyStr("unknown")}

UnitsWith(action) == {i \in 1..Len(topCohort) : TakenIn(action, topCohort[i])}
UnitsWithout(action) == (1..Len(topCohort)) \ UnitsWith(action)

CasualtiesAt(i) ==
    topCohort[i].experience_unit.subsequent_outcomes.val.casualties.value.n

RECURSIVE SumCasualties(_)
SumCasualties(units) ==
    IF units = {} THEN 0
    ELSE LET i == CHOOSE k \in units : TRUE
         IN  CasualtiesAt(i) + SumCasualties(units \ {i})

Reporting(units) == {i \in units : HasCasualtyData(topCohort[i])}

\* P = (mean(without) - mean(with)) / mean(without) * 100, whole percents
PercentLower(action) ==
    LET w == Reporting(UnitsWith(action))
        wo == Reporting(UnitsWithout(action))
    IN  ((SumCasualties(wo) * Cardinality(w) - SumCasualties(w) * Cardinality(wo)) * 100)
            \div (SumCasualties(wo) * Cardinality(w))

\* C17: every recommendation emitted for an action a has support = number of
\* cohort units with a, confidence = min(0.9, cohort size / 10), window
\* "0-12h", notes "Observational correlation only." and an effect text
\* stating P% lower casualties; for the cohort of check_step7.py the
\* recommendations are the single one for evacuation, with "90% lower
\* casualties" and support 3.
C17_RecommendationFields ==
    rawInterventions.status = "done" =>
        /\ \A i \in 1..Len(rawInterventions.out) :
              LET rec == rawInterventions.out[i]
              IN  /\ rec.supporting_experience_count =
                         Cardinality(UnitsWith(rec.action_name))
                  /\ rec.confidence_score =
                         (IF Len(topCohort) * 100 > 900 THEN 900
                          ELSE Len(topCohort) * 100)
                  /\ rec.suggested_time_window = "0-12h"
                  /\ rec.notes = "Observational correlation only."
                  /\ Contains(ToString(PercentLower(rec.action_name))
                                  \o "% lower casualties",
                              rec.comparative_effect)
        /\ topCohort = Step7Cohort =>
              /\ Len(rawInterventions.out) = 1
              /\ rawInterventions.out[1].action_name = "evacuation"
              /\ rawInterventions.out[1].supporting_experience_count = 3
              /\ Contains("90% lower casualties", rawInterventions.out[1].comparative_effect)

\* The cohort of check_step7.py went through recommend_interventions.
C17_Witness ==
    /\ rawInterventions.status = "done"
    /\ topCohort = Step7Cohort
    /\ rawInterventions.out # <<>>
    /\ rawInterventions.out[1].action_name = "evacuation"
    /\ rawInterventions.out[1].confidence_score = 600

LogisticsNames == {"logistics", "logistics_coordination"}

\* C18: the reasoner considers logistics like the other three action kinds:
\* whenever logistics coordination is observed in some cohort units and
\* absent in others, with casualty data on both sides and a lower mean on the
\* treated side, a recommendation for logistics is emitted.
C18_LogisticsConsidered ==
    LET w == Reporting(UnitsWith("logistics_coordination"))
        wo == Reporting(UnitsWithout("logistics_coordination"))
    IN  (/\ rawInterventions.status = "done"
         /\ w # {}
         /\ wo # {}
         /\ SumCasualties(w) * Cardinality(wo) < SumCasualties(wo) * Cardinality(w)) =>
            \E i \in 1..Len(rawInterventions.out) :
                rawInterventions.out[i].action_name \in LogisticsNames

\* The rearrangements of a sequence
PermutedSeqs(seq) ==
    {[i \in 1..Len(seq) |-> seq[f[i]]] : f \in PermutationsOf(Len(seq))}

\* C19: aggregator stability: for every permutation of the cohort
\* project_timeline returns the identical projections and
\* recommend_interventions the identical list in the identical order.
C19_PermutationStable ==
    /\ rawProjections.status = "done" =>
          \A permuted \in PermutedSeqs(topCohort) :
              project_timeline(queryPhase, permuted) = rawProjections.out
    /\ rawInterventions.status = "done" =>
          \A permuted \in PermutedSeqs(topCohort) :
              \A order \in Orderings(potential_actions(permuted)) :
                  recommend_interventions(queryPhase, permuted, order)
                      = rawInterventions.out

--------------------------------------------------------------------------
(* Claims about the response formatter *)

Band(score) ==
    IF score >= 800 THEN "High" ELSE IF score >= 500 THEN "Medium" ELSE "Low"

PassedScores ==
    {systemResponse.projection_conf[h].score : h \in DOMAIN systemResponse.projection_conf}

\* The horizons passed in both dicts, in the fixed order
RECURSIVE PresentInBoth(_)
PresentInBoth(order) ==
    IF order = <<>> THEN <<>>
    ELSE (IF /\ Head(order) \in DOMAIN systemResponse.projections
             /\ Head(order) \in DOMAIN systemResponse.projection_conf
          THEN <<Head(order)>> ELSE <<>>) \o PresentInBoth(Tail(order))

\* C20: format_response lists the baseline projections in the order 0-12h,
\* 12-24h, 24-48h, only for horizons present in both the projections and
\* their assessments; the overall level is band(minimum projection
\* assessment score), Low when there is none; risks_gaps is "Sparse data"
\* exactly when that minimum is below 0.5; the drivers are the union of all
\* assessment drivers.
C20_FormattedOverview ==
    systemResponse.status = "done" =>
        LET out == systemResponse.out
            overview == out.confidence_overview
        IN  /\ [i \in 1..Len(out.baseline_projections) |->
                   out.baseline_projections[i].horizon]
                   = PresentInBoth(<<"0-12h", "12-24h", "24-48h">>)
            /\ PassedScores = {} => overview.overall_level = "Low"
            /\ PassedScores # {} =>
                   \E m \in PassedScores :
                       /\ \A x \in PassedScores : m <= x
                       /\ overview.overall_level = Band(m)
                       /\ (overview.risks_gaps = <<"Sparse data">>) <=> (m < 500)
                       /\ (overview.risks_gaps = <<"None specific">>) <=> (m >= 500)
            /\ overview.drivers =
                   UNION {DriversOf(systemResponse.projection_conf[h]) :
                             h \in DOMAIN systemResponse.projection_conf}
                   \cup UNION {DriversOf(calibratedInterventions.out[i][2]) :
                                  i \in 1..Len(calibratedInterventions.out)}

\* Three horizons calibrated to 0.8, 0.6 and 0.8, the projection of 0-12h
\* left out: two projections are listed and the overall level is Medium.
C20_Witness ==
    /\ systemResponse.status = "done"
    /\ DOMAIN systemResponse.projection_conf = Horizons
    /\ DOMAIN systemResponse.projections = {"12-24h", "24-48h"}
    /\ Len(systemResponse.out.baseline_projections) = 2
    /\ systemResponse.out.baseline_projections[1].horizon = "12-24h"
    /\ systemResponse.projection_conf["0-12h"].score = 800
    /\ systemResponse.projection_conf["12-24h"].score = 600
    /\ systemResponse.projection_conf["24-48h"].score = 800
    /\ systemResponse.out.confidence_overview.overall_level = "Medium"
    /\ systemResponse.out.confidence_overview.risks_gaps = <<"None specific">>

--------------------------------------------------------------------------
(* Claims about the emission rule of the reasoner *)

RecommendedActions ==
    {rawInterventions.out[i].action_name : i \in 1..Len(rawInterventions.out)}

\* The actions the reasoner collects from the cohort
ObservedActions == {a \in ActionKeys : UnitsWith(a) # {}}

\* mean casualties with the action strictly below mean casualties without
MeanLowerWith(action) ==
    LET w == Reporting(UnitsWith(action))
        wo == Reporting(UnitsWithout(action))
    IN  SumCasualties(w) * Cardinality(wo) < SumCasualties(wo) * Cardinality(w)

--------------------------------------------------------------------------
(* Claims about the labels of the calibrated assessments *)

\* C28: every ConfidenceAssessment emitted by calibrate_projections or
\* calibrate_interventions has a label consistent with its emitted (rounded)
\* score under the band High >= 0.8, Medium >= 0.5, else Low.
C28_LabelMatchesScore ==
    /\ calibratedProjections.status = "done" =>
          \A h \in DOMAIN calibratedProjections.out :
              calibratedProjections.out[h].label
                  = Band(calibratedProjections.out[h].score)
    /\ calibratedInterventions.status = "done" =>
          \A i \in 1..Len(calibratedInterventions.out) :
              calibratedInterventions.out[i][2].label
                  = Band(calibratedInterventions.out[i][2].score)

--------------------------------------------------------------------------
(* Claims about queries of the later phases *)

LaterPhases == {"T2_STABILIZATION", "T3_OUTCOME"}

\* C29: for a query phase of T2_STABILIZATION or T3_OUTCOME project_timeline
\* places no candidate in any horizon whatever the cohort, so the three
\* projections have support 0 and confidence 0; in the replay pipeline every
\* calibrated intervention score at those phases is 0 and the overall
\* confidence level is Low.
C29_LaterPhasesProjectNothing ==
    queryPhase \in LaterPhases =>
        /\ rawProjections.status = "done" =>
              /\ DOMAIN rawProjections.out = Horizons
              /\ \A label \in Horizons :
                    /\ HorizonGroup(label) = <<>>
                    /\ rawProjections.out[label].supporting_experience_count = 0
                    /\ rawProjections.out[label].confidence_score = 0
        /\ calibratedInterventions.status = "done" =>
              \A i \in 1..Len(calibratedInterventions.out) :
                  calibratedInterventions.out[i][2].score = 0
        /\ systemResponse.status = "done" =>
              /\ systemResponse.out.confidence_overview.overall_level = "Low"
              /\ \A i \in 1..Len(systemResponse.out.intervention_options) :
                    systemResponse.out.intervention_options[i].confidence_score = 0

\* A T2 query over a cohort with T2 and T3 candidates for which evacuation is
\* recommended with raw confidence 0.3: the response lists it with score 0.
C29_Witness ==
    /\ queryPhase = "T2_STABILIZATION"
    /\ systemResponse.status = "done"
    /\ Len(topCohort) = 3
    /\ \E i \in 1..Len(topCohort) : topCohort[i].experience_unit.phase = "T2_STABILIZATION"
    /\ \E i \in 1..Len(topCohort) : topCohort[i].experience_unit.phase = "T3_OUTCOME"
    /\ Len(rawInterventions.out) = 1
    /\ rawInterventions.out[1].action_name = "evacuation"
    /\ rawInterventions.out[1].confidence_score = 300
    /\ calibratedInterventions.out[1][2].score = 0
    /\ "Capped by baseline uncertainty" \in DriversOf(calibratedInterventions.out[1][2])
    /\ systemResponse.out.intervention_options[1].confidence_score = 0
    /\ systemResponse.out.confidence_overview.overall_level = "Low"

--------------------------------------------------------------------------
(* Claims about retrieval from an index with malformed payloads *)

MandatoryKeys == {"phase", "source_case_id"}

WellFormed(payload) == MandatoryKeys \subseteq DOMAIN payload

\* The units of the well-formed hits, in hit order
RECURSIVE UnitsOfWellFormed(_)
UnitsOfWellFormed(hits) ==
    IF hits = <<>> THEN <<>>
    ELSE (IF WellFormed(Head(hits).payload)
          THEN <<reconstruct_experience_unit(Head(hits).payload)>>
          ELSE <<>>) \o UnitsOfWellFormed(Tail(hits))

SkipsMalformed ==
    retrieved' # retrieved =>
        \E vector \in Vectors, limit \in Limits :
            \E hits \in Search(client, collection, vector, limit) :
                /\ retrieved'.status = "ok"
                /\ retrieved'.units = UnitsOfWellFormed(hits)

\* C25: when a stored payload returned by the index lacks a mandatory key
\* (phase or source_case_id), retrieve_candidates skips that candidate and
\* still returns every other well-formed candidate of the same search.
C25_MalformedPayloadSkipped == [][SkipsMalformed]_vars

--------------------------------------------------------------------------
(* Claims about the ownership of a unit's situation *)

\* What a reader of the unit sees: its fields, the situation by value
UnitView ==
    [expUnit.unit EXCEPT !.situation = sitHeap[expUnit.unit.situation]]

UnitKeepsItsView ==
    expUnit.made => (expUnit'.made /\ UnitView' = UnitView)

\* C26: an ExperienceUnit is immutable and exclusively owns its situation:
\* after from_timeslice any assignment to a field of the unit fails leaving
\* it unchanged, and no later change made through the originating
\* TimeSlice's situation is visible in the unit.
C26_UnitOwnsItsSituation == [][UnitKeepsItsView]_vars

\* Assignments to the fields of the unit fail and leave it as it was.
FieldAssignmentFails ==
    (\E field \in UnitFields : AssignUnitField(field)) =>
        (assignRaised' /\ UnitView' = UnitView)

UnitFieldsFrozen == [][FieldAssignmentFails]_vars

--------------------------------------------------------------------------
(* Claims about the replay *)

ReplaySlices == ingest_case_study(raw).slices

CarriesOutcomes(slice) == ~OutcomesEmpty(slice.situation)

StartsWith(prefix, str) ==
    Len(str) >= Len(prefix) /\ SubSeq(str, 1, Len(prefix)) = prefix

LaterThan(phase) == {p \in PhaseNames : PhaseIndex(p) > PhaseIndex(phase)}

\* The log of the slice alone: no future slice, no final outcomes.
AloneOutputs(slice) ==
    {process_phase(slice, historicalMemory, <<>>, NoOutcomes, order).system_output :
        order \in Orderings(potential_actions(top_cohort_of(slice, historicalMemory)))}

OneLogPerSliceInOrder ==
    /\ Len(replayLogs.logs) = Len(ReplaySlices)
    /\ \A i \in 1..Len(replayLogs.logs) : replayLogs.logs[i].phase = ReplaySlices[i].phase
    /\ \A i, j \in 1..Len(replayLogs.logs) :
          i < j => PhaseIndex(replayLogs.logs[i].phase) < PhaseIndex(replayLogs.logs[j].phase)

QueryIsOwnSlice ==
    \A i \in 1..Len(replayLogs.logs) :
        replayLogs.logs[i].system_output \in AloneOutputs(ReplaySlices[i])

ActionsFromLaterSlices ==
    \A i \in 1..Len(replayLogs.logs) :
        LET log == replayLogs.logs[i]
            lines == log.validation.actual_subsequent_actions
        IN  \A k \in 1..Len(lines) :
                \E p \in LaterThan(log.phase) :
                    /\ StartsWith(p \o ": ", lines[k])
                    /\ \E j \in 1..Len(ReplaySlices) : ReplaySlices[j].phase = p

FinalOutcomesOfT3 ==
    \A i \in 1..Len(replayLogs.logs) :
        LET summary == replayLogs.logs[i].validation.actual_final_outcomes
        IN  /\ summary = "Unknown" <=>
                   ~\E j \in 1..Len(ReplaySlices) : CarriesOutcomes(ReplaySlices[j])
            /\ summary # "Unknown" =>
                   \E j \in 1..Len(ReplaySlices) :
                       /\ ReplaySlices[j].phase = "T3_OUTCOME"
                       /\ summary = outcome_summary_of(
                                        SomeOutcomes(ReplaySlices[j].situation.outcomes))

\* C21: replay_case emits exactly one log per ingested slice, in phase order
\* T0 to T3; the log for phase P is computed with only the slice of P as
\* query situation, its actual_subsequent_actions come only from slices of
\* phases strictly later than P, and its actual_final_outcomes are those of
\* the T3 slice ("Unknown" when no slice carries outcomes).
C21_ReplayLogs ==
    replayLogs.status = "done" =>
        /\ OneLogPerSliceInOrder
        /\ QueryIsOwnSlice
        /\ ActionsFromLaterSlices
        /\ FinalOutcomesOfT3

\* The same without the statement about the final outcomes.
ReplayLogsButOutcomes ==
    replayLogs.status = "done" =>
        /\ OneLogPerSliceInOrder
        /\ QueryIsOwnSlice
        /\ ActionsFromLaterSlices

--------------------------------------------------------------------------
(* Claims about startup *)

TextMode == lower(Getenv(environ, "TEXT_LLM_PROVIDER", "groq"))
EmbedMode == lower(Getenv(environ, "EMBEDDING_PROVIDER", "huggingface"))
MockMode == Getenv(environ, "MOCK_MODE", "") = "true"

CredentialOf ==
    [groq |-> "GROQ_API_KEY", openai |-> "OPENAI_API_KEY", huggingface |-> "HF_API_TOKEN"]

MissingCredential(mode) == mode \in DOMAIN CredentialOf /\ CredentialOf[mode] \notin DOMAIN environ

InvalidConfiguration ==
    \/ TextMode \notin {"groq", "openai", "mock"}
    \/ EmbedMode \notin {"huggingface", "openai"}
    \/ MissingCredential(TextMode)
    \/ MissingCredential(EmbedMode)

\* C24: startup with a missing or invalid provider or missing credentials
\* is fatal: for an unknown TEXT_LLM_PROVIDER or EMBEDDING_PROVIDER value,
\* or an absent API key/token for the selected provider, client creation
\* fails and the process refuses to start, so no request is ever served with
\* an unusable client; MOCK_MODE=true always yields the mock client.
C24_BadConfigurationIsFatal ==
    /\ (~MockMode /\ InvalidConfiguration) => process # "serving"
    /\ process = "serving" => ~embed_text_raises(llm_client)
    /\ httpResponse.route = "embed" => httpResponse.code = 200
    /\ (MockMode /\ process # "starting") =>
           (process = "serving" /\ llm_client = MockLLMClient)

\* What does hold: unknown text providers are fatal, unknown embedding
\* providers are fatal unless the text provider is the mock, and MOCK_MODE
\* gives the mock client.
UnknownProviderFatal ==
    /\ (~MockMode /\ TextMode \notin {"groq", "openai", "mock"}) => process # "serving"
    /\ (~MockMode /\ TextMode # "mock" /\ EmbedMode \notin {"huggingface", "openai"}) =>
           process # "serving"
    /\ (MockMode /\ process # "starting") =>
           (process = "serving" /\ llm_client = MockLLMClient)

\* The process never serves with a Hugging Face client that has no token.
NeverServesWithoutToken ==
    ~(/\ process = "serving"
      /\ llm_client.embed = "huggingface"
      /\ "HF_API_TOKEN" \notin DOMAIN environ
      /\ httpResponse.code = 500)

--------------------------------------------------------------------------
(* Claims about the HTTP service *)

Answered == httpResponse.route = "decision-support" /\ httpResponse.code = 200

\* every stripped risk text of the retrieved snapshots, in retrieval order
RECURSIVE RiskTexts(_)
RiskTexts(results) ==
    IF results = <<>> THEN <<>>
    ELSE LET risks == iter_items(Head(results).risks_perceived)
         IN  [i \in 1..Len(risks) |-> strip(risks[i].s)] \o RiskTexts(Tail(results))

ActionTexts(results) ==
    [i \in 1..Len(results) |-> strip(results[i].action_taken_narrative.s)]

SameIgnoringCase(a, b) == lower(strip(a)) = lower(strip(b))

NoDuplicates(list) ==
    \A i, j \in 1..Len(list) : SameIgnoringCase(list[i], list[j]) => i = j

\* first position in texts of an entry equal to text ignoring case
FirstAt(texts, text) ==
    CHOOSE i \in 1..Len(texts) :
        /\ SameIgnoringCase(texts[i], text)
        /\ \A j \in 1..(i - 1) : ~SameIgnoringCase(texts[j], text)

\* list holds, in order of first occurrence, the first ListLimit distinct
\* non-empty texts, each as it is written at its first occurrence
FirstOccurrences(list, texts) ==
    /\ \A k \in 1..Len(list) :
          /\ \E i \in 1..Len(texts) : SameIgnoringCase(texts[i], list[k])
          /\ list[k] = texts[FirstAt(texts, list[k])]
    /\ \A k, l \in 1..Len(list) :
          k < l => FirstAt(texts, list[k]) < FirstAt(texts, list[l])
    /\ \A i \in 1..Len(texts) :
          (texts[i] # "" /\ \A k \in 1..Len(list) : ~SameIgnoringCase(texts[i], list[k]))
              => /\ Len(list) = ListLimit
                 /\ \A k \in 1..Len(list) : FirstAt(texts, list[k]) < i

ListAsClaimed(list, texts, fallback) ==
    /\ Len(list) <= 5
    /\ NoDuplicates(list)
    /\ IF \A i \in 1..Len(texts) : texts[i] = ""
       THEN list = <<fallback>>
       ELSE FirstOccurrences(list, texts)

\* C22: the decision-support response has at most 5 top_risks and at most 5
\* recommended_actions, neither list contains two entries equal ignoring
\* case and surrounding whitespace, entries keep first-occurrence order over
\* the retrieved snapshots, and an otherwise empty list is replaced by the
\* single fallback entry; a request with no narrative gets a 400 error and
\* no retrieval.
C22_DecisionSupportLists ==
    /\ Answered =>
          /\ ListAsClaimed(httpResponse.top_risks,
                           RiskTexts(httpResponse.retrieved_results),
                           "Risk assessment requires more data.")
          /\ ListAsClaimed(httpResponse.recommended_actions,
                           ActionTexts(httpResponse.retrieved_results),
                           "Evaluate situation further.")
    /\ (httpResponse.route = "decision-support" /\ httpResponse.code = 400) =>
          ~httpResponse.retrieval

\* Two snapshots whose risks and actions differ in case and whitespace only
\* were retrieved and their entries merged.
C22_Witness ==
    /\ Answered
    /\ Len(httpResponse.retrieved_results) = 2
    /\ Len(RiskTexts(httpResponse.retrieved_results)) > Len(httpResponse.top_risks)
    /\ \E i, j \in 1..Len(ActionTexts(httpResponse.retrieved_results)) :
          /\ i # j
          /\ SameIgnoringCase(ActionTexts(httpResponse.retrieved_results)[i],
                              ActionTexts(httpResponse.retrieved_results)[j])
          /\ ActionTexts(httpResponse.retrieved_results)[i]
                 # ActionTexts(httpResponse.retrieved_results)[j]
    /\ Len(httpResponse.recommended_actions) = 1

WellFormedArray(reply) ==
    /\ reply.parses
    /\ reply.value.t = "list"
    /\ \A i \in 1..Len(reply.value.l) : reply.value.l[i].t = "dict"

Ingesting == httpResponse'.route = "ingest" /\ httpResponse'.code # 400

BadReplyGivesNothing ==
    (Ingesting /\ ~WellFormedArray(httpResponse'.reply)) =>
        /\ httpResponse'.raised = ""
        /\ httpResponse'.snapshots_created = 0
        /\ snapshotPoints' = snapshotPoints

\* C23: when the LLM's snapshot-extraction reply is not a well-formed JSON
\* array of snapshot objects, processed_case_study returns an empty list
\* without raising, and the ingest request stores no snapshot and leaves the
\* memory store unchanged.
C23_BadReplyStoresNothing == [][BadReplyGivesNothing]_vars

\* The part that holds: the store is left as it was, and a reply that is no
\* JSON at all gives the empty list.
BadReplyLeavesStore ==
    (Ingesting /\ ~WellFormedArray(httpResponse'.reply)) =>
        /\ snapshotPoints' = snapshotPoints
        /\ ~httpResponse'.reply.parses =>
               (httpResponse'.raised = "" /\ httpResponse'.snapshots_created = 0)

BadReplyStoreUnchanged == [][BadReplyLeavesStore]_vars

AllOrNothing ==
    httpResponse'.route = "ingest" =>
        /\ httpResponse'.upserts <= 1
        /\ httpResponse'.code # 200 =>
               (snapshotPoints' = snapshotPoints /\ httpResponse'.upserts = 0)
        /\ httpResponse'.code = 200 =>
               /\ Len(snapshotPoints') = Len(snapshotPoints) + httpResponse'.snapshots_created
               /\ SubSeq(snapshotPoints', 1, Len(snapshotPoints)) = snapshotPoints
               /\ httpResponse'.upserts = 1 <=> httpResponse'.snapshots_created > 0

\* C30: the HTTP case-study ingest is all-or-nothing with respect to the
\* store: snapshots are written in a single upsert issued only after every
\* snapshot has been embedded, so a failure during extraction or while
\* embedding any snapshot leaves the memory store unchanged, and on success
\* the number of points written equals snapshots_created.
C30_IngestAllOrNothing == [][AllOrNothing]_vars

\* Two snapshots were written by one request, and a request whose second
\* embedding failed came after it.
C30_Witness ==
    /\ Len(snapshotPoints) = 2
    /\ httpResponse.route = "ingest"
    /\ httpResponse.raised = "embedding"
    /\ Len(httpResponse.reply.value.l) = 2
    /\ WellFormedArray(httpResponse.reply)

====
